---------------------------- MODULE Spec2Model ----------------------------
(***************************************************************************)
(* Verification model of the workshop-adk-a2a repository: the analytics    *)
(* tools (analytics-mcp-server), the demonstration coordinator             *)
(* (pokedex_assistant/a2a_client.py) and the A2A test clients together     *)
(* with the task life cycle of the responder they talk to.                 *)
(***************************************************************************)
EXTENDS Integers, Sequences, FiniteSets, Bags, TLC

VARIABLES
    catalog,      \* the external catalog: subject key -> fetched data
    cmpPc,        \* stat comparison: "idle" | "done"
    cmpArgs,      \* stat comparison: the two subject keys of the call
    cmpServer,    \* result of server.py compare_pokemon_stats
    cmpHttp,      \* result of http_server.py compare_pokemon_stats
    coPc,         \* collaborative_analysis: "idle" | "running" | "done" | "raised"
    coArgs,       \* collaborative_analysis: <<pokemon1, pokemon2>>
    coLog,        \* requests posted so far, in order
    coInflight,   \* steps whose request is awaiting its response
    coOutcome,    \* what the upstream did at each step (environment)
    coLocals,     \* the step results held in local variables
    coResult,     \* the dictionary collaborative_analysis returns
    exPc,         \* answer extraction: "idle" | "done"
    exTask,       \* answer extraction: the task a get-task poll returned
    exOut,        \* answer extraction: what the client printed
    tasks,        \* responder: task id -> task record
    nextCtx,      \* responder: the next context id it will generate
    req,          \* the client's request in transit
    inbox,        \* responder: the request delivered to it, not yet handled
    pending,      \* responder: the handled request whose reply is due
    rsp,          \* the reply in transit to the client
    cliProg,      \* which test routine the client runs
    cliPc,        \* client: "send" | "await_send" | "poll" | "await_get" | "done" | "aborted"
    cliQuery,     \* client: index of the query being sent
    cliTurn,      \* client: turn of the conversation (1, or 2 for the follow-up)
    cliReqNo,     \* client: number of requests issued so far
    cliTask,      \* client: the Task this query's send-message returned
    cliSent,      \* client: the send-message payloads posted, in order
    cliPolls,     \* client: get-task polls issued for the current query
    cliSeen,      \* client: what this query's get-task returned
    cliOut,       \* client: the answer printed after this query's poll
    tePc,         \* type effectiveness: "idle" | "done"
    teUpstream,   \* type effectiveness: what GET /type/<attacker> gives
    teArgs,       \* type effectiveness: the defender_types of the call
    teOut,        \* type effectiveness: the returned dictionary
    rkPc,         \* ranked listing: "idle" | "done"
    rkArgs,       \* ranked listing: [stat_name, pokemon_list] of the call
    rkOut,        \* ranked listing: the returned dictionary
    tbPc,         \* team build: "idle" | "done"
    tbArgs,       \* team build: [strategy, team_size] of the call
    tbOut,        \* team build: the returned dictionary
    teamArgs,     \* team analysis and coverage: the pokemon_list of the calls
    taPc,         \* team analysis: "idle" | "done"
    taOut,        \* team analysis: what analyze_team_composition gave
    cvPc,         \* coverage score: "idle" | "done"
    cvOut,        \* coverage score: what calculate_team_coverage gave
    ftPc,         \* catalog fetch: "idle" | "info" | "data" | "search"
    ftUp,         \* catalog fetch: what the upstream does with the GET
    ftArgs,       \* catalog fetch: the keyword arguments of search_pokemon
    ftSent,       \* catalog fetch: the query parameters sent upstream
    ftOut,        \* catalog fetch: what the mcp-server tool returned
    ftData,       \* catalog fetch: what the analytics get_pokemon_data returned
    tvPc,         \* trivia: "idle" | "server" | "http"
    tvSubject,    \* trivia: what GET /pokemon/<name> gives
    tvSpecies,    \* trivia: what GET /pokemon-species/<name> gives
    tvOut,        \* trivia: the returned dictionary
    dsPc,         \* tool call: "idle" | "done"
    dsCall,       \* tool call: [name, arguments] given to handle_call_tool
    dsFetches,    \* tool call: the upstream GETs the call made, in order
    dsOut,        \* tool call: the payload handle_call_tool returned
    smPc,         \* sample rankings: "idle" | "done"
    smArgs,       \* sample rankings: the keyword arguments of the call
    smOut,        \* sample rankings: the returned dictionary
    prHandle,     \* peer requests: agent -> whether its peer handle is held
    prTried,      \* peer requests: agent -> discoveries attempted so far
    prFound,      \* peer requests: agent -> discoveries that succeeded
    prCalls,      \* peer requests: operations started so far
    prPc,         \* peer requests: caller -> "idle" | "executing" | "returned"
    prOp,         \* peer requests: caller -> the operation it called
    prOut,        \* peer requests: caller -> what the operation returned
    sgPc,         \* team improvements: "idle" | "done"
    sgStrategy,   \* team improvements: the strategy of the call
    sgOut         \* team improvements: what suggest_team_improvements gave

cmpVars == <<catalog, cmpPc, cmpArgs, cmpServer, cmpHttp>>

coVars == <<coPc, coArgs, coLog, coInflight, coOutcome, coLocals, coResult>>

exVars == <<exPc, exTask, exOut>>

srvVars == <<tasks, nextCtx, inbox, pending>>

netVars == <<req, rsp>>

cliVars == <<cliProg, cliPc, cliQuery, cliTurn, cliReqNo, cliTask, cliSent,
             cliPolls, cliSeen, cliOut>>

a2aVars == <<srvVars, netVars, cliVars>>

teVars == <<tePc, teUpstream, teArgs, teOut>>

rkVars == <<rkPc, rkArgs, rkOut>>

tbVars == <<tbPc, tbArgs, tbOut>>

teamVars == <<teamArgs, taPc, taOut, cvPc, cvOut>>

ftVars == <<ftPc, ftUp, ftArgs, ftSent, ftOut, ftData>>

tvVars == <<tvPc, tvSubject, tvSpecies, tvOut>>

dsVars == <<dsPc, dsCall, dsFetches, dsOut>>

smVars == <<smPc, smArgs, smOut>>

prVars == <<prHandle, prTried, prFound, prCalls, prPc, prOp, prOut>>

sgVars == <<sgPc, sgStrategy, sgOut>>

extVars == <<ftVars, tvVars, dsVars, smVars, prVars, sgVars>>

toolVars == <<teVars, rkVars, tbVars, teamVars, extVars>>

\* everything but the components gathered in extVars
coreVars == <<cmpVars, coVars, exVars, a2aVars, teVars, rkVars, tbVars,
              teamVars>>

notFt == <<coreVars, tvVars, dsVars, smVars, prVars, sgVars>>

notTv == <<coreVars, ftVars, dsVars, smVars, prVars, sgVars>>

notDs == <<coreVars, ftVars, tvVars, smVars, prVars, sgVars>>

notSm == <<coreVars, ftVars, tvVars, dsVars, prVars, sgVars>>

notPr == <<coreVars, ftVars, tvVars, dsVars, smVars, sgVars>>

notSg == <<coreVars, ftVars, tvVars, dsVars, smVars, prVars>>

vars == <<cmpVars, coVars, exVars, a2aVars, toolVars>>

(***************************************************************************)
(* Bounds of the model.                                                    *)
(***************************************************************************)
MaxStat == 2

\* longest artifact list and longest history of a polled task
MaxLen == 2

\* number of tasks the responder can hold
MaxTasks == 2

\* length of the client's list of test queries (8 in the source)
NumQueries == 2

\* longest defender_types list of a type-effectiveness call
MaxDefenders == 3

\* longest pokemon_list of a ranked-listing call
MaxRanked == 3

\* largest team_size, in absolute value, asked of a team build (the
\* rosters have six entries)
MaxTeamSize == 7

\* longest pokemon_list of a team analysis or coverage call
MaxTeam == 6

\* longest result page the upstream list endpoint returns
MaxResults == 2

\* most metrics a subject of trivia carries
MaxMetrics == 3

\* peer-request operations started in one run, and how many may be under
\* way at once
MaxCalls == 3

MaxCallers == 2

(***************************************************************************)
(* The catalog (PokeAPI), an external collaborator: a subject key either   *)
(* resolves to data carrying a map of named base stats, or does not        *)
(* resolve (non-200 status or transport failure).                          *)
(***************************************************************************)
Keys == {"pikachu", "raichu"}

MetricNames == {"hp", "attack"}

StatMaps == UNION {[D -> 0..MaxStat] : D \in SUBSET MetricNames}

NoStats == [m \in {} |-> 0]

Missing == [found |-> FALSE, stats |-> NoStats]

Datas == {Missing} \cup {[found |-> TRUE, stats |-> s] : s \in StatMaps}

\* str.capitalize() / str.title() on the catalog's lower-case names
Capitalize(k) ==
    CASE k = "pikachu" -> "Pikachu"
      [] k = "raichu" -> "Raichu"
      [] OTHER -> k

\* get_pokemon_data: the JSON body on status 200, None otherwise
get_pokemon_data(cat, key) == cat[key]

RECURSIVE SumOver(_, _)
SumOver(f, D) ==
    IF D = {} THEN 0
    ELSE LET m == CHOOSE x \in D : TRUE
         IN f[m] + SumOver(f, D \ {m})

\* mutant: the total counts a single metric only
SumValuesHpOnly(f) == IF "hp" \in DOMAIN f THEN f["hp"] ELSE 0

\* sum(stats.values())
SumValues(f) == SumOver(f, DOMAIN f)

Abs(x) == IF x < 0 THEN -x ELSE x

(***************************************************************************)
(* Stat comparison, analytics-mcp-server/server.py.                        *)
(***************************************************************************)
ErrorResult == [kind |-> "error"]

\* an exception leaving the function (KeyError on stats2[stat_name])
RaisedResult == [kind |-> "raised"]

IdleResult == [kind |-> "none"]

\* mutant: a zero difference is credited to the first subject
WinnerOfNoTie(diff, first, second, tie) ==
    IF diff >= 0 THEN first ELSE second

\* winner = pokemon1 if diff > 0 else pokemon2 if diff < 0 else "tie"
WinnerOf(diff, first, second, tie) ==
    IF diff > 0 THEN first ELSE IF diff < 0 THEN second ELSE tie

\* one entry of comparison["comparison"]
StatEntry(s1, s2, m, p1, p2) ==
    LET diff == s1[m] - s2[m]
    IN [difference |-> Abs(diff), winner |-> WinnerOf(diff, p1, p2, "tie")]

compare_pokemon_stats(cat, p1, p2) ==
    LET data1 == get_pokemon_data(cat, p1)
        data2 == get_pokemon_data(cat, p2)
        stats1 == data1.stats
        stats2 == data2.stats
    IN IF ~data1.found \/ ~data2.found THEN ErrorResult
       ELSE IF ~(DOMAIN stats1 \subseteq DOMAIN stats2) THEN RaisedResult
       ELSE [kind |-> "ok",
             pokemon1 |-> [name |-> Capitalize(p1), stats |-> stats1,
                           total |-> SumValues(stats1)],
             pokemon2 |-> [name |-> Capitalize(p2), stats |-> stats2,
                           total |-> SumValues(stats2)],
             comparison |-> [m \in DOMAIN stats1 |->
                                StatEntry(stats1, stats2, m, p1, p2)],
             overall_winner |->
                 WinnerOf(SumValues(stats1) - SumValues(stats2), p1, p2, "tie")]

(***************************************************************************)
(* Stat comparison, analytics-mcp-server/http_server.py: signed            *)
(* differences, winners named by the capitalized catalog name, no overall  *)
(* winner.                                                                 *)
(***************************************************************************)
http_compare_pokemon_stats(cat, p1, p2) ==
    LET data1 == get_pokemon_data(cat, p1)
        data2 == get_pokemon_data(cat, p2)
        stats1 == data1.stats
        stats2 == data2.stats
    IN IF ~data1.found \/ ~data2.found THEN ErrorResult
       ELSE IF ~(DOMAIN stats1 \subseteq DOMAIN stats2) THEN RaisedResult
       ELSE [kind |-> "ok",
             pokemon1 |-> [name |-> Capitalize(p1), stats |-> stats1,
                           total_stats |-> SumValues(stats1)],
             pokemon2 |-> [name |-> Capitalize(p2), stats |-> stats2,
                           total_stats |-> SumValues(stats2)],
             differences |-> [m \in DOMAIN stats1 |-> stats1[m] - stats2[m]],
             winner_by_stat |-> [m \in DOMAIN stats1 |->
                 WinnerOf(stats1[m] - stats2[m],
                          Capitalize(p1), Capitalize(p2), "Tie")]]

\* the documented example: {hp:35, attack:55} vs {hp:60, attack:50}
ExampleCatalog ==
    [k \in Keys |->
       IF k = "pikachu"
       THEN [found |-> TRUE, stats |-> [hp |-> 35, attack |-> 55]]
       ELSE [found |-> TRUE, stats |-> [hp |-> 60, attack |-> 50]]]

CompareIdle ==
    /\ cmpPc = "idle"
    /\ cmpArgs = <<"pikachu", "pikachu">>
    /\ cmpServer = IdleResult
    /\ cmpHttp = IdleResult

\* a caller invokes the server.py tool on two subject keys
CompareServer ==
    /\ cmpPc = "idle"
    /\ \E p1 \in Keys, p2 \in Keys :
         /\ cmpArgs' = <<p1, p2>>
         /\ cmpServer' = compare_pokemon_stats(catalog, p1, p2)
    /\ cmpPc' = "done"
    /\ UNCHANGED <<catalog, cmpHttp, coVars, exVars, a2aVars, toolVars>>

\* a caller invokes the http_server.py tool on two subject keys
CompareHttp ==
    /\ cmpPc = "idle"
    /\ \E p1 \in Keys, p2 \in Keys :
         /\ cmpArgs' = <<p1, p2>>
         /\ cmpHttp' = http_compare_pokemon_stats(catalog, p1, p2)
    /\ cmpPc' = "done"
    /\ UNCHANGED <<catalog, cmpServer, coVars, exVars, a2aVars, toolVars>>

CompareNext == CompareServer \/ CompareHttp

(***************************************************************************)
(* The demonstration coordinator, pokedex_assistant/a2a_client.py:         *)
(* PokemonA2AClient.collaborative_analysis posts two requests to the       *)
(* basic-info agent and three to the analytics agent.                      *)
(***************************************************************************)
Steps == 1..5

\* which agent a step's request goes to
StepAgent(i) == IF i <= 2 THEN "pokemon" ELSE "assistant"

\* the key of the returned dictionary a step's result is stored under
StepKey(i) ==
    CASE i = 1 -> "pokemon1_basic_info"
      [] i = 2 -> "pokemon2_basic_info"
      [] i = 3 -> "detailed_comparison"
      [] i = 4 -> "battle_analysis"
      [] i = 5 -> "trivia"

ResultKeys == {StepKey(i) : i \in Steps}

\* the message text of a step, by its template and the subjects it names
StepMessage(i, p1, p2) ==
    CASE i = 1 -> <<"Tell me about", p1>>
      [] i = 2 -> <<"Tell me about", p2>>
      [] i = 3 -> <<"Compare stats", p1, p2>>
      [] i = 4 -> <<"Analyze type effectiveness", p1, p2>>
      [] i = 5 -> <<"Generate trivia about", p1>>

\* what the remote end can do with one POST /chat
StatusCodes == {404, 500}

Outcomes ==
    {[kind |-> "ok"], [kind |-> "badjson"], [kind |-> "exception"],
     [kind |-> "timeout"]}
    \cup {[kind |-> "status", code |-> c] : c \in StatusCodes}

NoOutcome == [kind |-> "none"]

NoPayload == [kind |-> "none"]

\* mutant: no try/except around the POST, a transport fault propagates
query_agent_unguarded(agent, o) ==
    CASE o.kind = "ok" -> [kind |-> "answer", from |-> agent]
      [] o.kind = "status" ->
           [kind |-> "error", from |-> agent, why |-> "status", code |-> o.code]
      [] OTHER -> [kind |-> "raised"]

\* query_pokemon_agent / query_assistant_agent: the JSON body on status 200,
\* an error dictionary on any other status and on any exception (transport
\* failure, timeout, response.json() failing)
query_agent(agent, o) ==
    CASE o.kind = "ok" -> [kind |-> "answer", from |-> agent]
      [] o.kind = "status" ->
           [kind |-> "error", from |-> agent, why |-> "status", code |-> o.code]
      [] OTHER -> [kind |-> "error", from |-> agent, why |-> "contact"]

\* mutant: all five requests are posted without awaiting one another
CanIssueConcurrently(i, log, inflight) ==
    \A k \in 1..Len(log) : log[k].step # i

\* each request is awaited before the next statement runs: step i is posted
\* when steps 1..i-1 were posted and nothing is awaited
CanIssue(i, log, inflight) ==
    /\ i = Len(log) + 1
    /\ inflight = {}

CollabIdle ==
    /\ coPc = "idle"
    /\ coArgs = <<"pikachu", "pikachu">>
    /\ coLog = <<>>
    /\ coInflight = {}
    /\ coOutcome = [i \in Steps |-> NoOutcome]
    /\ coLocals = [i \in Steps |-> NoPayload]
    /\ coResult = [k \in ResultKeys |-> NoPayload]

\* collaborative_analysis(pokemon1, pokemon2) is called
CollabStart ==
    /\ coPc = "idle"
    /\ \E p1 \in Keys, p2 \in Keys : coArgs' = <<p1, p2>>
    /\ coPc' = "running"
    /\ UNCHANGED <<coLog, coInflight, coOutcome, coLocals, coResult, cmpVars, exVars, a2aVars, toolVars>>

\* the client posts the request of step i
CollabIssue ==
    /\ coPc = "running"
    /\ \E i \in Steps :
         /\ CanIssue(i, coLog, coInflight)
         /\ coLog' = Append(coLog, [step |-> i, agent |-> StepAgent(i),
                                    message |-> StepMessage(i, coArgs[1], coArgs[2])])
         /\ coInflight' = coInflight \cup {i}
    /\ UNCHANGED <<coPc, coArgs, coOutcome, coLocals, coResult, cmpVars, exVars, a2aVars, toolVars>>

\* the awaited POST of step i ends, with a response or with an exception;
\* an exception leaving query_*_agent leaves collaborative_analysis too
CollabRespond ==
    /\ coPc = "running"
    /\ \E i \in coInflight, o \in Outcomes :
         LET r == query_agent(StepAgent(i), o)
         IN /\ coOutcome' = [coOutcome EXCEPT ![i] = o]
            /\ coInflight' = coInflight \ {i}
            /\ IF r.kind = "raised"
               THEN /\ coPc' = "raised"
                    /\ UNCHANGED coLocals
               ELSE /\ coPc' = coPc
                    /\ coLocals' = [coLocals EXCEPT ![i] = r]
    /\ UNCHANGED <<coArgs, coLog, coResult, cmpVars, exVars, a2aVars, toolVars>>

\* all five results are in: the dictionary is built and returned
CollabReturn ==
    /\ coPc = "running"
    /\ Len(coLog) = 5
    /\ coInflight = {}
    /\ coResult' = [k \in ResultKeys |->
                      coLocals[CHOOSE i \in Steps : StepKey(i) = k]]
    /\ coPc' = "done"
    /\ UNCHANGED <<coArgs, coLog, coInflight, coOutcome, coLocals, cmpVars, exVars, a2aVars, toolVars>>

CollabNext == CollabStart \/ CollabIssue \/ CollabRespond \/ CollabReturn

(***************************************************************************)
(* Answer extraction of pokedex_assistant/test_client.py                   *)
(* (test_assistant_agent, the block after the get-task poll).              *)
(*                                                                         *)
(* A part is "root_text" (a wrapped part whose root carries text),         *)
(* "direct_text" (an object with a text attribute of its own) or "no_text" *)
(* (a data or file part).  A text is identified by its position in the     *)
(* task, so two texts at different places are different answers.  Long     *)
(* answers are printed cut to 500 characters; the cut is not modelled.     *)
(***************************************************************************)
PartKinds == {"root_text", "direct_text", "no_text"}

PartLists ==
    {<<>>, <<"root_text">>, <<"direct_text">>, <<"no_text">>,
     <<"no_text", "root_text">>, <<"no_text", "direct_text">>}

Roles == {"user", "assistant"}

Messages == [role : Roles, parts : PartLists]

SeqsUpTo(S, n) == UNION {[1..k -> S] : k \in 0..n}

\* task.result / task.response / task.output, read only when the task has
\* neither artifacts nor history
OtherFields == {"none", "result", "response", "output"}

PolledTasks(n) ==
    {[artifacts |-> a, history |-> h, other |-> "none"] :
        a \in SeqsUpTo([parts : PartLists], n), h \in SeqsUpTo(Messages, n)}
    \cup {[artifacts |-> <<>>, history |-> <<>>, other |-> o] : o \in OtherFields}

NoTask == [artifacts |-> <<>>, history |-> <<>>, other |-> "none"]

Printed(src, i, j) == [kind |-> "text", src |-> src, at |-> <<i, j>>]

Silent == [kind |-> "silent"]

Empty == [kind |-> "empty"]

NotRun == [kind |-> "none"]

\* index of the first element of seq satisfying Test, 0 if none
FirstIndex(seq, Test(_)) ==
    IF \E k \in 1..Len(seq) : Test(seq[k])
    THEN CHOOSE k \in 1..Len(seq) :
           /\ Test(seq[k])
           /\ \A l \in 1..(k - 1) : ~Test(seq[l])
    ELSE 0

\* hasattr(part, 'root') and hasattr(part.root, 'text'), elif hasattr(part, 'text')
ArtifactPartHasText(p) == p \in {"root_text", "direct_text"}

\* hasattr(part, 'text')
HistoryPartHasText(p) == p = "direct_text"

IsAssistant(msg) == msg.role = "assistant"

\* the artifacts branch: only the first artifact is looked at (the loop
\* over artifacts breaks after its first pass); nothing is printed when it
\* has no text part
extract_from_artifacts(task) ==
    LET parts == task.artifacts[1].parts
        j == FirstIndex(parts, ArtifactPartHasText)
    IN IF j = 0 THEN Silent ELSE Printed("artifact", 1, j)

\* the history branch: only the first message with role 'assistant' is
\* looked at (the loop breaks after it); nothing is printed when there is
\* none or when it has no text part
extract_from_history(task) ==
    LET i == FirstIndex(task.history, IsAssistant)
    IN IF i = 0 THEN Silent
       ELSE LET j == FirstIndex(task.history[i].parts, HistoryPartHasText)
            IN IF j = 0 THEN Silent ELSE Printed("history", i, j)

\* if task.artifacts: ... elif task.history: ... elif task.result: ...
\* elif task.response: ... elif task.output: ... else: "Task completed but
\* no response content found"
extract_answer(task) ==
    IF task.artifacts # <<>> THEN extract_from_artifacts(task)
    ELSE IF task.history # <<>> THEN extract_from_history(task)
    ELSE IF task.other # "none" THEN [kind |-> "other", field |-> task.other]
    ELSE Empty

ExtractIdle ==
    /\ exPc = "idle"
    /\ exTask = NoTask
    /\ exOut = NotRun

\* a get-task poll returned a task and the client prints its answer
Extract ==
    /\ exPc = "idle"
    /\ exOut' = extract_answer(exTask)
    /\ exPc' = "done"
    /\ UNCHANGED <<exTask, cmpVars, coVars, a2aVars, toolVars>>

ExtractNext == Extract

(***************************************************************************)
(* The responder: the task life cycle of a specialist agent served by      *)
(* a2a_app.  Its request handling is not part of the repository's sources  *)
(* (a2a_app is declared by a call into the agent framework); it is         *)
(* modelled from the specification's sections 3, 4.3, 4.4 and 5.           *)
(***************************************************************************)
None == 0

TaskIds == 1..MaxTasks

Terminal == {"completed", "failed"}

Settled == {"completed", "failed", "input_required"}

NoTaskRec == [state |-> "none", context_id |-> None, artifacts |-> <<>>, turns |-> 0]

\* a task as a reply shows it
Snapshot(ts, t) ==
    [id |-> t, context_id |-> ts[t].context_id, state |-> ts[t].state,
     artifacts |-> ts[t].artifacts, turns |-> ts[t].turns]

NoSnapshot ==
    [id |-> None, context_id |-> None, state |-> "none", artifacts |-> <<>>,
     turns |-> 0]

NoReq == [kind |-> "none"]

NoPending == [kind |-> "none"]

NoRsp == [kind |-> "none"]

FreeIds(ts) == {t \in TaskIds : ts[t].state = "none"}

Exists(ts, t) == t \in TaskIds /\ ts[t].state # "none"

\* mutant: a follow-up is never accepted
ResumableNever(ts, p) == FALSE

\* a follow-up continues its task when the task awaits input and the
\* message echoes the task's context id
Resumable(ts, p) ==
    /\ Exists(ts, p.taskId)
    /\ ts[p.taskId].state = "input_required"
    /\ p.contextId \in {None, ts[p.taskId].context_id}

\* send-message: a message without task id opens a task (answered directly
\* with a Message when direct is chosen), with a freshly generated context
\* id unless it names one; a message with a task id continues that task or
\* is refused
handle_send(ts, ctx, m, direct) ==
    LET p == m.payload
    IN IF p.taskId # None
       THEN IF Resumable(ts, p)
            THEN [tasks |-> [ts EXCEPT ![p.taskId].state = "submitted",
                                       ![p.taskId].turns = @ + 1],
                  nextCtx |-> ctx,
                  pending |-> [kind |-> "task", no |-> m.no, id |-> p.taskId]]
            ELSE [tasks |-> ts, nextCtx |-> ctx,
                  pending |-> [kind |-> "error", no |-> m.no]]
       ELSE IF direct
            THEN [tasks |-> ts, nextCtx |-> ctx,
                  pending |-> [kind |-> "message", no |-> m.no]]
       ELSE IF FreeIds(ts) = {}
            THEN [tasks |-> ts, nextCtx |-> ctx,
                  pending |-> [kind |-> "error", no |-> m.no]]
       ELSE LET t == CHOOSE x \in FreeIds(ts) : \A y \in FreeIds(ts) : x <= y
                c == IF p.contextId # None THEN p.contextId ELSE ctx
            IN [tasks |-> [ts EXCEPT ![t] = [state |-> "submitted",
                                             context_id |-> c,
                                             artifacts |-> <<>>,
                                             turns |-> 1]],
                nextCtx |-> IF p.contextId # None THEN ctx ELSE ctx + 1,
                pending |-> [kind |-> "task", no |-> m.no, id |-> t]]

\* get-task: reads the task, never changes it
handle_get(ts, m) ==
    IF Exists(ts, m.id)
    THEN [kind |-> "task", no |-> m.no, id |-> m.id]
    ELSE [kind |-> "error", no |-> m.no]

\* mutant: a finished task is run again
SuccessorsRestart(state) ==
    CASE state = "submitted" -> {"working"}
      [] state = "working" -> {"completed", "input_required", "failed"}
      [] state = "completed" -> {"working"}
      [] OTHER -> {}

\* the single state-machine step of a specialist:
\* submitted -> working -> input_required | completed | failed
Successors(state) ==
    CASE state = "submitted" -> {"working"}
      [] state = "working" -> {"completed", "input_required", "failed"}
      [] OTHER -> {}

\* mutant: a fault leaves no artifact
ArtifactsOnNoError(state, old) ==
    CASE state = "completed" -> <<"answer">>
      [] OTHER -> old

\* the final answer is the sole artifact of a completed task, the error
\* message the sole artifact of a failed one
ArtifactsOn(state, old) ==
    CASE state = "completed" -> <<"answer">>
      [] state = "failed" -> <<"error">>
      [] OTHER -> old

ResponderIdle ==
    /\ tasks = [t \in TaskIds |-> NoTaskRec]
    /\ nextCtx = 1
    /\ inbox = NoReq
    /\ pending = NoPending

\* the transport delivers the client's request
Deliver ==
    /\ req # NoReq
    /\ inbox = NoReq
    /\ inbox' = req
    /\ req' = NoReq
    /\ UNCHANGED <<tasks, nextCtx, pending, rsp, cliVars, cmpVars, coVars, exVars, toolVars>>

\* the responder handles the delivered request
Handle ==
    /\ inbox # NoReq
    /\ pending = NoPending
    /\ inbox' = NoReq
    /\ IF inbox.kind = "send"
       THEN \E direct \in BOOLEAN :
              LET r == handle_send(tasks, nextCtx, inbox, direct)
              IN /\ tasks' = r.tasks
                 /\ nextCtx' = r.nextCtx
                 /\ pending' = r.pending
       ELSE /\ pending' = handle_get(tasks, inbox)
            /\ UNCHANGED <<tasks, nextCtx>>
    /\ UNCHANGED <<netVars, cliVars, cmpVars, coVars, exVars, toolVars>>

\* one step of task t's life cycle
Step(t) ==
    /\ \E nxt \in Successors(tasks[t].state) :
         tasks' = [tasks EXCEPT ![t].state = nxt,
                                ![t].artifacts = ArtifactsOn(nxt, @)]
    /\ UNCHANGED <<nextCtx, inbox, pending, netVars, cliVars, cmpVars, coVars, exVars, toolVars>>

\* the responder answers the handled request with the task as it is now;
\* the answer is dropped when the client no longer waits for it
Reply ==
    /\ pending # NoPending
    /\ pending' = NoPending
    /\ rsp' = IF pending.no = cliReqNo /\ cliPc \in {"await_send", "await_get"}
              THEN IF pending.kind = "task"
                   THEN [kind |-> "task", no |-> pending.no,
                         task |-> Snapshot(tasks, pending.id)]
                   ELSE [kind |-> pending.kind, no |-> pending.no]
              ELSE rsp
    /\ UNCHANGED <<tasks, nextCtx, inbox, req, cliVars, cmpVars, coVars, exVars, toolVars>>

(***************************************************************************)
(* The A2A test clients: run_single_turn_test and run_multi_turn_test of   *)
(* pokemon_agent/test_client.py, and the query loop of                     *)
(* pokedex_assistant/test_client.py (test_assistant_agent).                *)
(***************************************************************************)
Programs == {"single", "multi", "loop"}

\* mutant: the context id is left out of the payload
create_send_message_payload_no_context(text, task_id, context_id) ==
    [text |-> text, taskId |-> task_id, contextId |-> None]

\* create_send_message_payload: taskId and contextId are set only when given
create_send_message_payload(text, task_id, context_id) ==
    [text |-> text,
     taskId |-> IF task_id # None THEN task_id ELSE None,
     contextId |-> IF context_id # None THEN context_id ELSE None]

\* the artifacts and history of a polled task as the extraction reads them
AsPolled(snap) ==
    [artifacts |-> [k \in 1..Len(snap.artifacts) |-> [parts |-> <<"root_text">>]],
     history |-> [k \in 1..snap.turns |-> [role |-> "user", parts |-> <<"root_text">>]],
     other |-> "none"]

\* mutant: the task is polled again until it is settled
PollAgainIfUnsettled(prog, snap) == snap.state \notin Settled

\* after a get-task reply no routine polls again
PollAgain(prog, snap) == FALSE

\* the end of a query: the loop goes on to its next query, whose locals
\* are fresh; otherwise the routine ends in state final
EndQuery(final, seen, out) ==
    IF cliProg = "loop" /\ cliQuery < NumQueries
    THEN /\ cliPc' = "send"
         /\ cliQuery' = cliQuery + 1
         /\ cliTask' = NoSnapshot
         /\ cliPolls' = 0
         /\ cliSeen' = NoRsp
         /\ cliOut' = NotRun
    ELSE /\ cliPc' = final
         /\ cliSeen' = seen
         /\ cliOut' = out
         /\ UNCHANGED <<cliQuery, cliTask, cliPolls>>

ClientIdle ==
    /\ cliPc = "send"
    /\ cliQuery = 1
    /\ cliTurn = 1
    /\ cliReqNo = 0
    /\ cliTask = NoSnapshot
    /\ cliSent = <<>>
    /\ cliPolls = 0
    /\ cliSeen = NoRsp
    /\ cliOut = NotRun
    /\ req = NoReq
    /\ rsp = NoRsp

\* client.send_message(request): the first turn names no task and no
\* context, the follow-up names the task and context of the first reply
ClientSend ==
    /\ cliPc = "send"
    /\ LET payload == IF cliTurn = 1
                      THEN create_send_message_payload("query", None, None)
                      ELSE create_send_message_payload("followup", cliTask.id,
                                                       cliTask.context_id)
       IN /\ req' = [kind |-> "send", no |-> cliReqNo + 1, payload |-> payload]
          /\ cliSent' = Append(cliSent, payload)
    /\ cliReqNo' = cliReqNo + 1
    /\ cliPc' = "await_send"
    /\ UNCHANGED <<rsp, cliProg, cliQuery, cliTurn, cliTask, cliPolls, cliSeen,
                   cliOut, srvVars, cmpVars, coVars, exVars, toolVars>>

\* mutant: the reply is not checked before the task is queried
is_task_any(response) == TRUE

\* isinstance(response.root, SendMessageSuccessResponse) and
\* isinstance(response.root.result, Task)
is_task(response) == response.kind = "task"

\* response.root.result, read once the reply has been checked
result_of(response) ==
    IF "task" \in DOMAIN response THEN response.task ELSE NoSnapshot

\* the send-message reply arrives
ClientRecvSend ==
    /\ cliPc = "await_send"
    /\ rsp # NoRsp
    /\ rsp' = NoRsp
    /\ IF ~is_task(rsp)
       THEN \* non-success or non-Task response: no get-task
            /\ EndQuery("done", cliSeen, cliOut)
            /\ UNCHANGED cliTurn
       ELSE IF cliProg = "multi"
       THEN /\ cliTask' = result_of(rsp)
            /\ IF /\ cliTurn = 1
                  /\ result_of(rsp).state = "input_required"
                  /\ result_of(rsp).context_id # None
               THEN cliTurn' = 2 /\ cliPc' = "send"
               ELSE cliPc' = "done" /\ UNCHANGED cliTurn
            /\ UNCHANGED <<cliQuery, cliPolls, cliSeen, cliOut>>
       ELSE /\ cliTask' = result_of(rsp)
            /\ cliPc' = "poll"
            /\ UNCHANGED <<cliTurn, cliQuery, cliPolls, cliSeen, cliOut>>
    /\ UNCHANGED <<req, cliProg, cliReqNo, cliSent, srvVars, cmpVars, coVars, exVars, toolVars>>

\* client.get_task(get_request) for the id of the returned task
ClientPoll ==
    /\ cliPc = "poll"
    /\ req' = [kind |-> "get", no |-> cliReqNo + 1, id |-> cliTask.id]
    /\ cliReqNo' = cliReqNo + 1
    /\ cliPolls' = cliPolls + 1
    /\ cliPc' = "await_get"
    /\ UNCHANGED <<rsp, cliProg, cliQuery, cliTurn, cliTask, cliSent, cliSeen,
                   cliOut, srvVars, cmpVars, coVars, exVars, toolVars>>

\* the get-task reply arrives: whatever state it shows is printed
ClientRecvGet ==
    /\ cliPc = "await_get"
    /\ rsp # NoRsp
    /\ rsp' = NoRsp
    /\ LET out == IF cliProg = "loop" /\ rsp.kind = "task"
                  THEN extract_answer(AsPolled(rsp.task))
                  ELSE cliOut
       IN IF rsp.kind = "task" /\ PollAgain(cliProg, rsp.task)
          THEN /\ cliPc' = "poll"
               /\ cliSeen' = rsp
               /\ cliOut' = out
               /\ UNCHANGED <<cliQuery, cliTask, cliPolls>>
          ELSE EndQuery("done", rsp, out)
    /\ UNCHANGED <<req, cliProg, cliTurn, cliReqNo, cliSent, srvVars, cmpVars,
                   coVars, exVars, toolVars>>

\* the awaited call raises (transport failure, or the httpx timeout): the
\* loop catches it and goes on, the other routines are left
ClientFault ==
    /\ cliPc \in {"await_send", "await_get"}
    /\ req' = NoReq
    /\ rsp' = NoRsp
    /\ EndQuery("aborted", cliSeen, cliOut)
    /\ UNCHANGED <<cliProg, cliTurn, cliReqNo, cliSent, srvVars, cmpVars,
                   coVars, exVars, toolVars>>

ClientNext ==
    ClientSend \/ ClientRecvSend \/ ClientPoll \/ ClientRecvGet \/ ClientFault

ResponderNext == Deliver \/ Handle \/ Reply \/ (\E t \in TaskIds : Step(t))

A2ANext == ClientNext \/ ResponderNext

A2AIdle ==
    /\ cliProg = "single"
    /\ ClientIdle
    /\ ResponderIdle

(***************************************************************************)
(* Type effectiveness (server.py, get_type_effectiveness).  The attacker's *)
(* damage relations come from the data source, which spells type names in  *)
(* lower case; the caller's defender types are compared in lower case and  *)
(* echoed as given.  The multiplier is a float that only ever holds 0 or a *)
(* power of two between 2^-MaxDefenders and 2^MaxDefenders, all exact in   *)
(* binary floating point; it is kept as an integer in units of 1/Scale,    *)
(* so that the float 1.0 is Scale.                                         *)
(***************************************************************************)
TypeNames == {"fire", "water"}

DefenderInputs == {"fire", "Fire", "water", "rock"}

\* str.lower() on the spellings above
Lower(t) ==
    CASE t = "Fire" -> "fire"
      [] OTHER -> t

Scale == 2 ^ MaxDefenders

\* what GET /type/<attacker> gives: a non-200 status, an exception (transport
\* failure, body that is not JSON or lacks damage_relations), or the three
\* relation lists
TypeReplies ==
    {[kind |-> "status"], [kind |-> "exception"]}
    \cup {[kind |-> "ok", double_damage_to |-> d, half_damage_to |-> h,
           no_damage_to |-> n] :
            d \in SUBSET TypeNames, h \in SUBSET TypeNames, n \in SUBSET TypeNames}

DefenderLists == UNION {[1..k -> DefenderInputs] : k \in 0..MaxDefenders}

\* mutant: the no_damage_to branch is missing
damage_class_no_immunity(relations, defender_type) ==
    IF Lower(defender_type) \in relations.double_damage_to THEN "double"
    ELSE IF Lower(defender_type) \in relations.half_damage_to THEN "half"
    ELSE "normal"

\* the if / elif / elif / else chain of the loop body
damage_class(relations, defender_type) ==
    IF Lower(defender_type) \in relations.double_damage_to THEN "double"
    ELSE IF Lower(defender_type) \in relations.half_damage_to THEN "half"
    ELSE IF Lower(defender_type) \in relations.no_damage_to THEN "no"
    ELSE "normal"

\* mutant: the factor is assigned, not multiplied in
times_overwrite(effectiveness, class) ==
    CASE class = "double" -> 2 * Scale
      [] class = "half" -> Scale \div 2
      [] class = "no" -> 0
      [] OTHER -> effectiveness

\* effectiveness *= 2.0 | 0.5 | 0.0
times(effectiveness, class) ==
    CASE class = "double" -> effectiveness * 2
      [] class = "half" -> effectiveness \div 2
      [] class = "no" -> 0
      [] OTHER -> effectiveness

\* the string appended to details
detail(class, defender_type) ==
    [text |-> CASE class = "double" -> "Super effective against"
                [] class = "half" -> "Not very effective against"
                [] class = "no" -> "No effect against"
                [] OTHER -> "Normal effectiveness against",
     type |-> defender_type]

\* effectiveness after the first k defender types
RECURSIVE effectiveness_after(_, _, _)
effectiveness_after(relations, defender_types, k) ==
    IF k = 0 THEN Scale
    ELSE times(effectiveness_after(relations, defender_types, k - 1),
               damage_class(relations, defender_types[k]))

\* mutant: >= 2.0 is tested before >= 4.0
description_super_first(multiplier) ==
    IF multiplier >= 2 * Scale THEN "Super effective!"
    ELSE IF multiplier >= 4 * Scale THEN "Extremely effective!"
    ELSE IF multiplier = Scale THEN "Normal effectiveness"
    ELSE IF 2 * multiplier >= Scale THEN "Not very effective..."
    ELSE IF multiplier > 0 THEN "Barely effective..."
    ELSE "No effect!"

\* _get_effectiveness_description
get_effectiveness_description(multiplier) ==
    IF multiplier >= 4 * Scale THEN "Extremely effective!"
    ELSE IF multiplier >= 2 * Scale THEN "Super effective!"
    ELSE IF multiplier = Scale THEN "Normal effectiveness"
    ELSE IF 2 * multiplier >= Scale THEN "Not very effective..."
    ELSE IF multiplier > 0 THEN "Barely effective..."
    ELSE "No effect!"

get_type_effectiveness(reply, defender_types) ==
    IF reply.kind = "exception"
    THEN [kind |-> "error", error |-> "Error calculating type effectiveness"]
    ELSE IF reply.kind = "status"
    THEN [kind |-> "error", error |-> "Type not found"]
    ELSE LET effectiveness ==
                 effectiveness_after(reply, defender_types, Len(defender_types))
         IN [kind |-> "ok",
             defender_types |-> defender_types,
             effectiveness_multiplier |-> effectiveness,
             description |-> get_effectiveness_description(effectiveness),
             details |-> [i \in 1..Len(defender_types) |->
                             detail(damage_class(reply, defender_types[i]),
                                    defender_types[i])]]

EffectIdle ==
    /\ tePc = "idle"
    /\ teUpstream = [kind |-> "status"]
    /\ teArgs = <<>>
    /\ teOut = IdleResult

\* a caller invokes calculate_type_effectiveness
TypeEffectiveness ==
    /\ tePc = "idle"
    /\ tePc' = "done"
    /\ teOut' = get_type_effectiveness(teUpstream, teArgs)
    /\ UNCHANGED <<teUpstream, teArgs, cmpVars, coVars, exVars, a2aVars, rkVars,
                   tbVars, teamVars, extVars>>

EffectNext == TypeEffectiveness

(***************************************************************************)
(* Ranked listing (http_server.py, get_stat_rankings): the subjects of the *)
(* list are fetched in order, those that resolve and carry the requested   *)
(* stat are ranked.  statistics.mean of integers is exact; the average is  *)
(* kept as the fraction num / den.                                         *)
(***************************************************************************)
RankedLists == UNION {[1..k -> Keys] : k \in 0..MaxRanked}

RankingArgs == [stat_name : MetricNames, pokemon_list : RankedLists]

\* rankings[0] if rankings else None
NoEntry == [name |-> "None", value |-> 0, rank |-> 0]

\* the entries appended by the fetch loop, in input order, for the first k
\* subjects of the list
RECURSIVE fetched_entries(_, _, _, _)
fetched_entries(cat, stat_name, pokemon_list, k) ==
    IF k = 0 THEN <<>>
    ELSE LET before == fetched_entries(cat, stat_name, pokemon_list, k - 1)
             pokemon_data == get_pokemon_data(cat, pokemon_list[k])
         IN IF pokemon_data.found /\ stat_name \in DOMAIN pokemon_data.stats
            THEN Append(before, [name |-> Capitalize(pokemon_list[k]),
                                 value |-> pokemon_data.stats[stat_name],
                                 rank |-> 0])
            ELSE before

\* mutant: an entry is placed before the entries of equal value
insert_before_equal(sorted, e) ==
    LET n == Cardinality({i \in 1..Len(sorted) : sorted[i].value > e.value})
    IN SubSeq(sorted, 1, n) \o <<e>> \o SubSeq(sorted, n + 1, Len(sorted))

\* the place of an entry in a list sorted by value, highest first, that
\* keeps entries of equal value in the order they arrived
insert_after_equal(sorted, e) ==
    LET n == Cardinality({i \in 1..Len(sorted) : sorted[i].value >= e.value})
    IN SubSeq(sorted, 1, n) \o <<e>> \o SubSeq(sorted, n + 1, Len(sorted))

\* rankings.sort(key=lambda x: x[stat_name], reverse=True): list.sort is
\* stable, with reverse=True as well
RECURSIVE sort_descending(_, _)
sort_descending(entries, k) ==
    IF k = 0 THEN <<>>
    ELSE insert_after_equal(sort_descending(entries, k - 1), entries[k])

\* for i, pokemon in enumerate(rankings): pokemon["rank"] = i + 1
add_ranks(sorted) == [i \in 1..Len(sorted) |-> [sorted[i] EXCEPT !.rank = i]]

RECURSIVE sum_values(_, _)
sum_values(entries, k) ==
    IF k = 0 THEN 0 ELSE sum_values(entries, k - 1) + entries[k].value

\* mutant: the mean is cut to an integer
mean_floor(entries) ==
    [num |-> sum_values(entries, Len(entries)) \div Len(entries), den |-> 1]

\* statistics.mean
mean(entries) ==
    [num |-> sum_values(entries, Len(entries)), den |-> Len(entries)]

get_stat_rankings(cat, stat_name, pokemon_list) ==
    LET entries == fetched_entries(cat, stat_name, pokemon_list, Len(pokemon_list))
        rankings == add_ranks(sort_descending(entries, Len(entries)))
    IN [kind |-> "ok",
        rankings |-> rankings,
        summary |->
            [highest |-> IF rankings # <<>> THEN rankings[1] ELSE NoEntry,
             lowest |-> IF rankings # <<>> THEN rankings[Len(rankings)] ELSE NoEntry,
             average |-> IF rankings # <<>> THEN mean(rankings)
                         ELSE [num |-> 0, den |-> 1]]]

RankIdle ==
    /\ rkPc = "idle"
    /\ rkArgs = [stat_name |-> "hp", pokemon_list |-> <<>>]
    /\ rkOut = IdleResult

\* a caller invokes the get_stat_rankings tool of http_server.py
RankListing ==
    /\ rkPc = "idle"
    /\ rkPc' = "done"
    /\ rkOut' = get_stat_rankings(catalog, rkArgs.stat_name, rkArgs.pokemon_list)
    /\ UNCHANGED <<rkArgs, cmpVars, coVars, exVars, a2aVars, teVars, tbVars,
                   teamVars, extVars>>

RankNext == RankListing

(***************************************************************************)
(* Team build (server.py, build_pokemon_team): a fixed roster per strategy *)
(* (the role of an entry is left out).  type_coverage is list(set(...)),   *)
(* a list whose order is the set's iteration order; it is kept as a bag,   *)
(* which holds how often each category is listed but not where.            *)
(***************************************************************************)
Member(name, types) == [name |-> name, types |-> types]

strategies ==
    [balanced |->
        <<Member("Garchomp", <<"Ground", "Dragon">>),
          Member("Rotom-Wash", <<"Electric", "Water">>),
          Member("Ferrothorn", <<"Grass", "Steel">>),
          Member("Latios", <<"Dragon", "Psychic">>),
          Member("Scizor", <<"Bug", "Steel">>),
          Member("Gliscor", <<"Ground", "Flying">>)>>,
     offensive |->
        <<Member("Salamence", <<"Dragon", "Flying">>),
          Member("Metagross", <<"Steel", "Psychic">>),
          Member("Gengar", <<"Ghost", "Poison">>),
          Member("Lucario", <<"Fighting", "Steel">>),
          Member("Dragonite", <<"Dragon", "Flying">>),
          Member("Alakazam", <<"Psychic">>)>>,
     defensive |->
        <<Member("Blissey", <<"Normal">>),
          Member("Skarmory", <<"Steel", "Flying">>),
          Member("Toxapex", <<"Poison", "Water">>),
          Member("Hippowdon", <<"Ground">>),
          Member("Celesteela", <<"Steel", "Flying">>),
          Member("Chansey", <<"Normal">>)>>]

\* strategy names a caller may give
StrategyInputs == {"balanced", "offensive", "defensive", "Balanced", "stall"}

BuildArgs == [strategy : StrategyInputs, team_size : (0 - MaxTeamSize)..MaxTeamSize]

Min(a, b) == IF a <= b THEN a ELSE b

Max(a, b) == IF a >= b THEN a ELSE b

\* seq[:n], for any integer n: a negative n counts from the end
slice_to(seq, n) ==
    IF n >= 0 THEN SubSeq(seq, 1, Min(n, Len(seq)))
    ELSE SubSeq(seq, 1, Max(Len(seq) + n, 0))

\* all_types after all_types.extend(pokemon["types"]) for the first k members
RECURSIVE extend_types(_, _)
extend_types(members, k) ==
    IF k = 0 THEN <<>>
    ELSE extend_types(members, k - 1) \o members[k].types

Range(seq) == {seq[i] : i \in 1..Len(seq)}

\* mutant: list(all_types), without the set
list_all(all_types) ==
    [t \in Range(all_types) |->
        Cardinality({i \in 1..Len(all_types) : all_types[i] = t})]

\* list(set(all_types))
list_set(all_types) == SetToBag(Range(all_types))

build_pokemon_team(strategy, team_size) ==
    IF strategy \notin DOMAIN strategies
    THEN [kind |-> "error", error |-> "Strategy not found"]
    ELSE LET pokemon == strategies[strategy]
             selected_pokemon == slice_to(pokemon, team_size)
         IN [kind |-> "ok",
             strategy |-> strategy,
             pokemon |-> pokemon,
             team_size |-> Min(team_size, Len(pokemon)),
             selected_pokemon |-> selected_pokemon,
             type_coverage |->
                 list_set(extend_types(selected_pokemon, Len(selected_pokemon)))]

BuildIdle ==
    /\ tbPc = "idle"
    /\ tbArgs = [strategy |-> "balanced", team_size |-> 6]
    /\ tbOut = IdleResult

\* a caller invokes the build_pokemon_team tool
TeamBuild ==
    /\ tbPc = "idle"
    /\ tbPc' = "done"
    /\ tbOut' = build_pokemon_team(tbArgs.strategy, tbArgs.team_size)
    /\ UNCHANGED <<tbArgs, cmpVars, coVars, exVars, a2aVars, teVars, rkVars,
                   teamVars, extVars>>

BuildNext == TeamBuild

(***************************************************************************)
(* Team analysis and coverage score (server.py, analyze_team_composition   *)
(* and calculate_team_coverage).  The catalog of these calls is a sample   *)
(* of the data source: six subjects of two categories each, no category    *)
(* shared, with their six base stats; "ditto", whose body carries a single *)
(* stat (a body of unexpected shape); and "missingno", which does not      *)
(* resolve.  The data source names categories in lower case.  A team is a  *)
(* list of at most MaxTeam of these keys, repetitions allowed, listed in   *)
(* the order of TeamKeys.                                                  *)
(***************************************************************************)
TeamKeys ==
    <<"charizard", "swampert", "breloom", "magnemite", "gengar", "tyranitar",
      "ditto", "missingno">>

SixStats(hp, attack, defense, spa, spd, speed) ==
    [m \in {"hp", "attack", "defense", "special-attack", "special-defense",
            "speed"} |->
        CASE m = "hp" -> hp
          [] m = "attack" -> attack
          [] m = "defense" -> defense
          [] m = "special-attack" -> spa
          [] m = "special-defense" -> spd
          [] OTHER -> speed]

Subject(name, types, stats) ==
    [found |-> TRUE, name |-> name, types |-> types, stats |-> stats]

\* get_pokemon_data gives None for the key
Unresolved(k) == [found |-> FALSE, name |-> k, types |-> <<>>, stats |-> NoStats]

TeamDex ==
    [k \in Range(TeamKeys) |->
        CASE k = "charizard" ->
                Subject(k, <<"fire", "flying">>, SixStats(78, 84, 78, 109, 85, 100))
          [] k = "swampert" ->
                Subject(k, <<"water", "ground">>, SixStats(100, 110, 90, 85, 90, 60))
          [] k = "breloom" ->
                Subject(k, <<"grass", "fighting">>, SixStats(60, 130, 80, 60, 60, 70))
          [] k = "magnemite" ->
                Subject(k, <<"electric", "steel">>, SixStats(25, 35, 70, 95, 55, 45))
          [] k = "gengar" ->
                Subject(k, <<"ghost", "poison">>, SixStats(60, 65, 60, 130, 75, 110))
          [] k = "tyranitar" ->
                Subject(k, <<"rock", "dark">>, SixStats(100, 134, 110, 95, 100, 61))
          [] k = "ditto" ->
                Subject(k, <<"normal">>, [m \in {"hp"} |-> 48])
          [] OTHER -> Unresolved(k)]

\* the data source as it is, or out of reach (no key resolves)
TeamCatalogs == {TeamDex, [k \in Range(TeamKeys) |-> Unresolved(k)]}

\* str.lower() on the names of the eight important types
Lower18(t) ==
    CASE t = "Fire" -> "fire"
      [] t = "Water" -> "water"
      [] t = "Grass" -> "grass"
      [] t = "Electric" -> "electric"
      [] t = "Ice" -> "ice"
      [] t = "Fighting" -> "fighting"
      [] t = "Flying" -> "flying"
      [] t = "Ground" -> "ground"
      [] OTHER -> t

\* str.title() on the names of the sample
Title(k) ==
    CASE k = "charizard" -> "Charizard"
      [] k = "swampert" -> "Swampert"
      [] k = "breloom" -> "Breloom"
      [] k = "magnemite" -> "Magnemite"
      [] k = "gengar" -> "Gengar"
      [] k = "tyranitar" -> "Tyranitar"
      [] k = "ditto" -> "Ditto"
      [] OTHER -> k

\* the lists of at most n keys in the order of TeamKeys, as non-decreasing
\* lists of positions in TeamKeys
RECURSIVE TeamPositions(_)
TeamPositions(n) ==
    IF n = 0 THEN {<<>>}
    ELSE LET shorter == TeamPositions(n - 1)
             longest == {m \in shorter : Len(m) = n - 1}
         IN shorter \cup
            UNION {{Append(l, x) :
                       x \in (IF l = <<>> THEN 1 ELSE l[Len(l)])..Len(TeamKeys)} :
                   l \in longest}

TeamLists(n) == {[i \in 1..Len(l) |-> TeamKeys[l[i]]] : l \in TeamPositions(n)}

\* team_data after the fetch loop over the first k names of the list
RECURSIVE team_data_after(_, _, _)
team_data_after(cat, pokemon_list, k) ==
    IF k = 0 THEN <<>>
    ELSE LET before == team_data_after(cat, pokemon_list, k - 1)
             pokemon_data == get_pokemon_data(cat, pokemon_list[k])
         IN IF pokemon_data.found
            THEN Append(before,
                        [name |-> Title(pokemon_data.name),
                         types |-> pokemon_data.types,
                         stats |-> pokemon_data.stats,
                         total_stats |-> SumValues(pokemon_data.stats)])
            ELSE before

\* all_types.count(type_name), for every type_name of all_types
type_distribution(all_types) ==
    [t \in Range(all_types) |->
        Cardinality({i \in 1..Len(all_types) : all_types[i] = t})]

RECURSIVE sum_totals(_, _)
sum_totals(team_data, k) ==
    IF k = 0 THEN 0 ELSE sum_totals(team_data, k - 1) + team_data[k].total_stats

\* round(x, 1) of the quotient num / den, in tenths: the nearest tenth, an
\* exact half going to the even one (for den < 20 an exact half is a
\* multiple of 1/4, which the float holds exactly)
round_tenths(num, den) ==
    LET q == (10 * num) \div den
        r == (10 * num) % den
    IN IF 2 * r > den THEN q + 1
       ELSE IF 2 * r < den THEN q
       ELSE IF q % 2 = 0 THEN q ELSE q + 1

\* the stat analysis over the stats of the first member
stat_analysis(team_data) ==
    [m \in DOMAIN team_data[1].stats |->
        LET values == [i \in 1..Len(team_data) |-> team_data[i].stats[m]]
            total == SumOver(values, 1..Len(values))
        IN [average |-> round_tenths(total, Len(values)),
            highest |-> CHOOSE v \in Range(values) : \A w \in Range(values) : v >= w,
            lowest |-> CHOOSE v \in Range(values) : \A w \in Range(values) : v <= w]]

\* mutant: good coverage needs more than 6 categories
coverage_verdict_above_six(type_count) ==
    IF type_count >= 10 THEN [strengths |-> <<"Excellent type coverage">>, weaknesses |-> <<>>]
    ELSE IF type_count > 6 THEN [strengths |-> <<"Good type coverage">>, weaknesses |-> <<>>]
    ELSE [strengths |-> <<>>, weaknesses |-> <<"Limited type coverage">>]

\* if type_count >= 10 ... elif type_count >= 6 ... else ...
coverage_verdict(type_count) ==
    IF type_count >= 10 THEN [strengths |-> <<"Excellent type coverage">>, weaknesses |-> <<>>]
    ELSE IF type_count >= 6 THEN [strengths |-> <<"Good type coverage">>, weaknesses |-> <<>>]
    ELSE [strengths |-> <<>>, weaknesses |-> <<"Limited type coverage">>]

\* avg_total = sum(totals) / len(team_data), compared with 500 and 400; the
\* float quotient is on the same side of 500 and of 400 as the exact one
stats_verdict(total, n) ==
    IF total >= 500 * n THEN [strengths |-> <<"High overall stats">>, weaknesses |-> <<>>]
    ELSE IF total <= 400 * n THEN [strengths |-> <<>>, weaknesses |-> <<"Below average stats">>]
    ELSE [strengths |-> <<>>, weaknesses |-> <<>>]

analyze_team_composition(cat, pokemon_list) ==
    IF pokemon_list = <<>>
    THEN [kind |-> "error", error |-> "No Pokemon provided for analysis"]
    ELSE LET team_data == team_data_after(cat, pokemon_list, Len(pokemon_list))
             all_types == extend_types(team_data, Len(team_data))
         IN IF team_data = <<>>
            THEN [kind |-> "error",
                  error |-> "Could not retrieve data for any of the provided Pokemon"]
            ELSE IF \E i \in 1..Len(team_data) :
                        ~(DOMAIN team_data[1].stats \subseteq DOMAIN team_data[i].stats)
            THEN RaisedResult
            ELSE LET type_coverage == list_set(all_types)
                     cv == coverage_verdict(BagCardinality(type_coverage))
                     sv == stats_verdict(sum_totals(team_data, Len(team_data)),
                                         Len(team_data))
                 IN [kind |-> "ok",
                     team_size |-> Len(team_data),
                     pokemon |-> team_data,
                     type_coverage |-> type_coverage,
                     type_distribution |-> type_distribution(all_types),
                     stat_analysis |-> stat_analysis(team_data),
                     strengths |-> cv.strengths \o sv.strengths,
                     weaknesses |-> cv.weaknesses \o sv.weaknesses]

important_types ==
    <<"Fire", "Water", "Grass", "Electric", "Ice", "Fighting", "Flying", "Ground">>

\* [t for t in important_types if t not in unique_types]
missing_important(unique_types) ==
    SelectSeq(important_types, LAMBDA t : t \notin BagToSet(unique_types))

\* mutant: the percentage is cut, not rounded, to one decimal
coverage_percentage_cut(n) == (1000 * n) \div 18

\* round((len(unique_types) / 18) * 100, 1), in tenths; 1000 * n / 18 is
\* never an exact half
coverage_percentage(n) == round_tenths(100 * n, 18)

calculate_team_coverage(cat, pokemon_list) ==
    LET pokemon_data == team_data_after(cat, pokemon_list, Len(pokemon_list))
        team_types == extend_types(pokemon_data, Len(pokemon_data))
        unique_types == list_set(team_types)
        n == BagCardinality(unique_types)
        missing == missing_important(unique_types)
    IN IF pokemon_data = <<>>
       THEN [kind |-> "error", error |-> "Could not retrieve data for any Pokemon"]
       ELSE [kind |-> "ok",
             team_pokemon |-> [i \in 1..Len(pokemon_data) |->
                                  [name |-> pokemon_data[i].name,
                                   types |-> pokemon_data[i].types]],
             offensive_types |-> unique_types,
             type_coverage_score |-> n,
             max_possible_coverage |-> 18,
             coverage_percentage |-> coverage_percentage(n),
             recommendations |->
                 (IF missing # <<>>
                  THEN <<[kind |-> "missing_important", types |-> missing]>>
                  ELSE <<>>)
                 \o (IF n < 6 THEN <<[kind |-> "limited_diversity", types |-> <<>>]>>
                     ELSE IF n >= 12
                     THEN <<[kind |-> "excellent_coverage", types |-> <<>>]>>
                     ELSE <<>>)]

TeamIdle ==
    /\ teamArgs = <<>>
    /\ taPc = "idle"
    /\ taOut = IdleResult
    /\ cvPc = "idle"
    /\ cvOut = IdleResult

\* a caller invokes the analyze_team_composition tool
TeamAnalyze ==
    /\ taPc = "idle"
    /\ taPc' = "done"
    /\ taOut' = analyze_team_composition(catalog, teamArgs)
    /\ UNCHANGED <<teamArgs, cvPc, cvOut, cmpVars, coVars, exVars, a2aVars,
                   teVars, rkVars, tbVars, extVars>>

\* a caller invokes the calculate_team_coverage tool
TeamCoverage ==
    /\ cvPc = "idle"
    /\ cvPc' = "done"
    /\ cvOut' = calculate_team_coverage(catalog, teamArgs)
    /\ UNCHANGED <<teamArgs, taPc, taOut, cmpVars, coVars, exVars, a2aVars,
                   teVars, rkVars, tbVars, extVars>>

TeamNext == TeamAnalyze \/ TeamCoverage


(***************************************************************************)
(* Catalog fetch: the tools of mcp-server/server.py and the fetch adapter  *)
(* of analytics-mcp-server/server.py, against one upstream GET.            *)
(***************************************************************************)
NoData == [found |-> FALSE]

\* a url as str.split("/") sees it: the text between the slashes, so
\* "https://pokeapi.co/api/v2/pokemon/25/" ends with "25" and ""
PokemonUrl(id) ==
    <<"https:", "", "pokeapi.co", "api", "v2", "pokemon", id, "">>

ListEntries ==
    {[name |-> "bulbasaur", url |-> PokemonUrl("1")],
     [name |-> "pikachu", url |-> PokemonUrl("25")]}

ResultPages(n) ==
    UNION {[1..k -> ListEntries] : k \in 0..n}

\* bodies of a response: not JSON at all, a JSON array, the object of one
\* subject, the object of a result page
Bodies ==
    {[json |-> FALSE], [json |-> TRUE, form |-> "array"],
     [json |-> TRUE, form |-> "pokemon", id |-> "25", name |-> "pikachu"]}
    \cup {[json |-> TRUE, form |-> "list", count |-> 1302, results |-> r] :
            r \in ResultPages(MaxResults)}

FetchStatuses == {200, 404, 500}

\* what the GET does: the transport fails, or a response arrives
FetchReplies ==
    {[kind |-> "transport"]}
    \cup {[kind |-> "response", status |-> c, body |-> b] :
            c \in FetchStatuses, b \in Bodies}

LimitInputs == {-1, 0, 1, 20, 99, 100, 101, 150}

OffsetInputs == {0, 1, 40}

NoArgs == [k \in {} |-> 0]

SearchArgs ==
    {NoArgs}
    \cup {[limit |-> l] : l \in LimitInputs}
    \cup {[offset |-> o] : o \in OffsetInputs}
    \cup {[limit |-> l, offset |-> o] : l \in LimitInputs, o \in OffsetInputs}

\* keyword argument with its default
Arg(args, k, default) ==
    IF k \in DOMAIN args THEN args[k] ELSE default

\* response.raise_for_status() raises for every status outside 2xx
raise_for_status(status) ==
    status < 200 \/ status > 299

\* except httpx.HTTPError as e: {"error": f"<what> request failed: {e}"}
RequestFailed(what, e) ==
    [kind |-> "error", error |-> <<what, "request failed", e>>]

\* except ValueError: {"error": "Invalid JSON response from <what>."}
InvalidJson(what) ==
    [kind |-> "error", error |-> <<"Invalid JSON response from", what>>]

\* the part of the three tools that is the same: the GET, raise_for_status,
\* response.json() and the two except clauses; extract(body) is the rest
FetchOutcome(what, up, extracted) ==
    IF up.kind = "transport"
    THEN RequestFailed(what, [exc |-> "TransportError"])
    ELSE IF raise_for_status(up.status)
    THEN RequestFailed(what, [exc |-> "HTTPStatusError", status |-> up.status])
    ELSE IF ~up.body.json THEN InvalidJson(what)
    ELSE IF up.body.form = "array" THEN RaisedResult
    ELSE extracted

\* data.get(k)
Get(data, k) ==
    IF k \in DOMAIN data THEN data[k] ELSE "None"

get_pokemon_info(up) ==
    FetchOutcome("Pokemon API", up,
                 [kind |-> "ok", id |-> Get(up.body, "id"),
                  name |-> Get(up.body, "name")])

\* mutant: the requested limit is sent as it is
capped_limit_none(limit) ==
    limit

\* limit = min(limit, 100)
capped_limit(limit) ==
    IF limit < 100 THEN limit ELSE 100

\* params={"limit": limit, "offset": offset}
search_params(args) ==
    [limit |-> capped_limit(Arg(args, "limit", 20)),
     offset |-> Arg(args, "offset", 0)]

\* pokemon["url"].split("/")[-2]
id_of_url(url) ==
    url[Len(url) - 1]

search_pokemon(args, up) ==
    LET results == IF up.body.form = "list" THEN up.body.results ELSE <<>>
    IN FetchOutcome("Pokemon search API", up,
                    [kind |-> "ok", count |-> Get(up.body, "count"),
                     pokemon |-> [i \in 1..Len(results) |->
                                    [name |-> results[i].name,
                                     url |-> results[i].url,
                                     id |-> id_of_url(results[i].url)]]])

\* get_pokemon_data of analytics-mcp-server/server.py: the body of a 200
\* response, None for every other outcome
analytics_get_pokemon_data(up) ==
    IF up.kind = "transport" THEN NoData
    ELSE IF up.status # 200 THEN NoData
    ELSE IF ~up.body.json THEN NoData
    ELSE [found |-> TRUE, body |-> up.body]

NoRequest == [kind |-> "none"]

FetchIdle ==
    /\ ftPc = "idle"
    /\ ftUp = [kind |-> "transport"]
    /\ ftArgs = NoArgs
    /\ ftSent = NoRequest
    /\ ftOut = IdleResult
    /\ ftData = IdleResult

\* a caller invokes the get_pokemon_info tool
FetchInfo ==
    /\ ftPc = "idle"
    /\ ftPc' = "info"
    /\ ftOut' = get_pokemon_info(ftUp)
    /\ UNCHANGED <<ftUp, ftArgs, ftSent, ftData, notFt>>

\* a tool of the analytics server calls its fetch adapter
FetchData ==
    /\ ftPc = "idle"
    /\ ftPc' = "data"
    /\ ftData' = analytics_get_pokemon_data(ftUp)
    /\ UNCHANGED <<ftUp, ftArgs, ftSent, ftOut, notFt>>

\* a caller invokes the search_pokemon tool
FetchSearch ==
    /\ ftPc = "idle"
    /\ ftPc' = "search"
    /\ ftSent' = search_params(ftArgs)
    /\ ftOut' = search_pokemon(ftArgs, ftUp)
    /\ UNCHANGED <<ftUp, ftArgs, ftData, notFt>>

FetchNext == FetchInfo \/ FetchData \/ FetchSearch

(***************************************************************************)
(* Trivia: generate_pokemon_trivia of analytics-mcp-server/server.py and   *)
(* of analytics-mcp-server/http_server.py.                                 *)
(***************************************************************************)
TriviaStats == {"hp", "attack", "special-attack"}

\* data['stats'] in the order the upstream lists it (a dict keeps it)
StatLists(n) ==
    UNION {{s \in [1..k -> [name : TriviaStats, value : 0..MaxStat]] :
              \A i, j \in 1..k : i # j => s[i].name # s[j].name} :
           k \in 1..n}

\* height in decimetres, weight in hectograms
Heights == {50, 51}

Weights == {1000, 1001}

TriviaSubjects(n) ==
    {[found |-> FALSE]}
    \cup {[found |-> TRUE, name |-> "pikachu", height |-> h, weight |-> w,
           stats |-> s] : h \in Heights, w \in Weights, s \in StatLists(n)}

\* a text as its characters, of which only the line and page breaks matter
Texts == {<<"a">>, <<"b", "\n", "c", "\f">>}

FlavorEntries ==
    UNION {[1..k -> [language : {"en", "ja"}, flavor_text : Texts]] :
           k \in 0..2}

SpeciesReplies ==
    {[found |-> FALSE]}
    \cup {[found |-> TRUE, flavor_text_entries |-> e] : e \in FlavorEntries}

\* stat name .replace('-', ' ').title()
StatTitle(name) ==
    CASE name = "hp" -> "Hp"
      [] name = "attack" -> "Attack"
      [] name = "special-attack" -> "Special Attack"
      [] OTHER -> name

RECURSIVE scan_max(_, _, _)
\* max(stats, key=stats.get): a later key replaces the best one only when
\* its value is strictly greater
scan_max(stats, i, best) ==
    IF i > Len(stats) THEN best
    ELSE scan_max(stats, i + 1,
                  IF stats[i].value > stats[best].value THEN i ELSE best)

\* mutant: among equal values the last key is kept
max_last(stats) ==
    CHOOSE i \in 1..Len(stats) :
        /\ \A j \in 1..Len(stats) : stats[j].value <= stats[i].value
        /\ \A j \in (i + 1)..Len(stats) : stats[j].value < stats[i].value

highest_stat(stats) ==
    scan_max(stats, 2, 1)

RECURSIVE scan_min(_, _, _)
\* min(stats, key=stats.get)
scan_min(stats, i, best) ==
    IF i > Len(stats) THEN best
    ELSE scan_min(stats, i + 1,
                  IF stats[i].value < stats[best].value THEN i ELSE best)

lowest_stat(stats) ==
    scan_min(stats, 2, 1)

RECURSIVE sum_stats(_)
sum_stats(stats) ==
    IF stats = <<>> THEN 0 ELSE Head(stats).value + sum_stats(Tail(stats))

\* entry['flavor_text'].replace('\n', ' ').replace('\f', ' ')
replace_breaks(text, breaks) ==
    [i \in 1..Len(text) |-> IF text[i] \in breaks THEN " " ELSE text[i]]

\* position of the first entry whose language is 'en', 0 when there is none
first_english(entries) ==
    IF \E i \in 1..Len(entries) : entries[i].language = "en"
    THEN CHOOSE i \in 1..Len(entries) :
            /\ entries[i].language = "en"
            /\ \A j \in 1..(i - 1) : entries[j].language # "en"
    ELSE 0

\* server.py: a dictionary with the list "facts"
generate_pokemon_trivia(pokemon_data, species_data) ==
    IF ~pokemon_data.found THEN ErrorResult
    ELSE LET stats == pokemon_data.stats
             hi == stats[highest_stat(stats)]
             lo == stats[lowest_stat(stats)]
             entries == IF species_data.found
                        THEN species_data.flavor_text_entries ELSE <<>>
             en == first_english(entries)
         IN [kind |-> "ok",
             pokemon |-> Capitalize(pokemon_data.name),
             facts |->
               <<[fact |-> "size", height |-> pokemon_data.height,
                  weight |-> pokemon_data.weight],
                 [fact |-> "Highest stat", stat |-> StatTitle(hi.name),
                  value |-> hi.value],
                 [fact |-> "Lowest stat", stat |-> StatTitle(lo.name),
                  value |-> lo.value],
                 [fact |-> "Total base stats", value |-> sum_stats(stats)]>>
               \o (IF en = 0 THEN <<>>
                   ELSE <<[fact |-> "Pokedex entry",
                           text |-> replace_breaks(entries[en].flavor_text,
                                                   {"\n", "\f"})]>>)]

\* http_server.py: a dictionary with the list "fun_facts" and, when there
\* is an English entry, the key "description"
http_generate_pokemon_trivia(pokemon_data, species_data) ==
    IF ~pokemon_data.found THEN ErrorResult
    ELSE LET entries == IF species_data.found
                        THEN species_data.flavor_text_entries ELSE <<>>
             en == first_english(entries)
             trivia ==
               [kind |-> "ok",
                name |-> Capitalize(pokemon_data.name),
                height |-> pokemon_data.height,
                weight |-> pokemon_data.weight,
                fun_facts |->
                  (IF pokemon_data.height > 50
                   THEN <<[fact |-> "tall", height |-> pokemon_data.height]>>
                   ELSE <<>>)
                  \o (IF pokemon_data.weight > 1000
                      THEN <<[fact |-> "heavy",
                              weight |-> pokemon_data.weight]>>
                      ELSE <<>>)]
         IN IF en = 0 THEN trivia
            ELSE [description |->
                    replace_breaks(entries[en].flavor_text, {"\n"})] @@ trivia

TriviaIdle ==
    /\ tvPc = "idle"
    /\ tvSubject = [found |-> FALSE]
    /\ tvSpecies = [found |-> FALSE]
    /\ tvOut = IdleResult

\* a caller invokes the generate_pokemon_trivia tool of server.py
TriviaServer ==
    /\ tvPc = "idle"
    /\ tvPc' = "server"
    /\ tvOut' = generate_pokemon_trivia(tvSubject, tvSpecies)
    /\ UNCHANGED <<tvSubject, tvSpecies, notTv>>

\* a caller invokes the generate_pokemon_trivia tool of http_server.py
TriviaHttp ==
    /\ tvPc = "idle"
    /\ tvPc' = "http"
    /\ tvOut' = http_generate_pokemon_trivia(tvSubject, tvSpecies)
    /\ UNCHANGED <<tvSubject, tvSpecies, notTv>>

TriviaNext == TriviaServer \/ TriviaHttp

(***************************************************************************)
(* Tool call by name: handle_call_tool of                                  *)
(* analytics-mcp-server/http_server.py with the four handlers it           *)
(* dispatches to.                                                          *)
(***************************************************************************)

\* handle_list_tools: the registered names with their "required" lists
required ==
    [compare_pokemon_stats |-> {"pokemon1", "pokemon2"},
     calculate_type_effectiveness |-> {"attacking_type", "defending_type"},
     generate_pokemon_trivia |-> {"pokemon_name"},
     get_stat_rankings |-> {"stat_name", "pokemon_list"}]

\* the arguments[...] a handler reads before anything else, in that order
reads ==
    [compare_pokemon_stats |-> <<"pokemon1", "pokemon2">>,
     calculate_type_effectiveness |-> <<"attacking_type", "defending_type">>,
     generate_pokemon_trivia |-> <<"pokemon_name">>,
     get_stat_rankings |-> <<"stat_name", "pokemon_list">>]

CompareArguments ==
    {NoArgs}
    \cup {[pokemon1 |-> a] : a \in Keys}
    \cup {[pokemon2 |-> b] : b \in Keys}
    \cup {[pokemon1 |-> a, pokemon2 |-> b] : a \in Keys, b \in Keys}

EffectArguments ==
    {NoArgs}
    \cup {[attacking_type |-> a] : a \in {"fire", "Electric"}}
    \cup {[defending_type |-> d] : d \in {"water", "ground"}}
    \cup {[attacking_type |-> a, defending_type |-> d] :
            a \in {"fire", "Electric"}, d \in {"water", "ground"}}

TriviaArguments ==
    {NoArgs, [pokemon_name |-> "pikachu"]}

RankingArguments ==
    {NoArgs}
    \cup {[stat_name |-> "hp"]}
    \cup {[pokemon_list |-> l] : l \in {<<>>, <<"pikachu", "raichu">>}}
    \cup {[stat_name |-> "hp", pokemon_list |-> l] :
            l \in {<<>>, <<"pikachu", "raichu">>}}

ToolCalls ==
    {[name |-> "compare_pokemon_stats", arguments |-> a] :
        a \in CompareArguments}
    \cup {[name |-> "calculate_type_effectiveness", arguments |-> a] :
            a \in EffectArguments}
    \cup {[name |-> "generate_pokemon_trivia", arguments |-> a] :
            a \in TriviaArguments}
    \cup {[name |-> "get_stat_rankings", arguments |-> a] :
            a \in RankingArguments}
    \cup {[name |-> "build_pokemon_team", arguments |-> a] :
            a \in TriviaArguments}

\* the simplified chart, multipliers in halves (2.0 is 4, 1.0 is 2)
type_effectiveness ==
    [fire |-> [grass |-> 4, water |-> 1, fire |-> 1],
     electric |-> [water |-> 4, grass |-> 1, electric |-> 1, ground |-> 0]]

\* type_effectiveness.get(attacking_type, {}).get(defending_type, 1.0)
chart_lookup(attacking_type, defending_type) ==
    IF attacking_type \in DOMAIN type_effectiveness
    THEN IF defending_type \in DOMAIN type_effectiveness[attacking_type]
         THEN type_effectiveness[attacking_type][defending_type]
         ELSE 2
    ELSE 2

http_calculate_type_effectiveness(arguments) ==
    LET attacking_type == Lower18(arguments.attacking_type)
        defending_type == Lower18(arguments.defending_type)
        effectiveness == chart_lookup(attacking_type, defending_type)
    IN [kind |-> "ok",
        attacking_type |-> attacking_type,
        defending_type |-> defending_type,
        effectiveness_multiplier |-> effectiveness,
        description |-> CASE effectiveness = 4 -> "super effective"
                          [] effectiveness = 1 -> "not very effective"
                          [] effectiveness = 0 -> "no effect"
                          [] OTHER -> "normal damage"]

\* the first arguments[...] of the handler that raises KeyError, 0 when
\* every one of them is there
first_missing(name, arguments) ==
    LET absent == {i \in 1..Len(reads[name]) :
                     reads[name][i] \notin DOMAIN arguments}
    IN IF absent = {} THEN 0
       ELSE CHOOSE i \in absent : \A j \in absent : i <= j

\* the GETs a handler makes once it has read its arguments
handler_fetches(name, arguments) ==
    CASE name = "compare_pokemon_stats" ->
           <<arguments.pokemon1, arguments.pokemon2>>
      [] name = "generate_pokemon_trivia" ->
           <<arguments.pokemon_name, arguments.pokemon_name>>
      [] name = "get_stat_rankings" -> arguments.pokemon_list
      [] OTHER -> <<>>

\* what a handler returns once it has read its arguments
handler_result(name, arguments, cat, pokemon_data, species_data) ==
    CASE name = "compare_pokemon_stats" ->
           http_compare_pokemon_stats(cat, arguments.pokemon1,
                                      arguments.pokemon2)
      [] name = "calculate_type_effectiveness" ->
           http_calculate_type_effectiveness(arguments)
      [] name = "generate_pokemon_trivia" ->
           http_generate_pokemon_trivia(pokemon_data, species_data)
      [] OTHER ->
           get_stat_rankings(cat, arguments.stat_name, arguments.pokemon_list)

\* mutant: the exception is not caught
reraise(result) ==
    result

\* except Exception as e: the payload {"error": "Tool execution failed: ..."}
tool_execution_failed(result) ==
    IF result.kind = "raised"
    THEN [kind |-> "error", error |-> "Tool execution failed"]
    ELSE result

\* handle_call_tool: the payload returned and the GETs made
handle_call_tool(name, arguments, cat, pokemon_data, species_data) ==
    IF name \notin DOMAIN reads
    THEN [out |-> tool_execution_failed(RaisedResult), fetches |-> <<>>]
    ELSE IF first_missing(name, arguments) # 0
    THEN [out |-> tool_execution_failed(RaisedResult), fetches |-> <<>>]
    ELSE [out |-> tool_execution_failed(
                      handler_result(name, arguments, cat, pokemon_data,
                                     species_data)),
          fetches |-> handler_fetches(name, arguments)]

DispatchIdle ==
    /\ dsPc = "idle"
    /\ dsCall = [name |-> "compare_pokemon_stats", arguments |-> NoArgs]
    /\ dsFetches = <<>>
    /\ dsOut = IdleResult

\* a client calls a tool by name
CallTool ==
    /\ dsPc = "idle"
    /\ dsPc' = "done"
    /\ LET r == handle_call_tool(dsCall.name, dsCall.arguments, catalog,
                                 tvSubject, tvSpecies)
       IN /\ dsOut' = r.out
          /\ dsFetches' = r.fetches
    /\ UNCHANGED <<dsCall, notDs>>

DispatchNext == CallTool

(***************************************************************************)
(* Sample rankings: the get_stat_rankings tool of                          *)
(* analytics-mcp-server/server.py, which answers from fixed tables.        *)
(***************************************************************************)
sample_data ==
    [hp |-> <<[name |-> "Blissey", value |-> 255],
              [name |-> "Chansey", value |-> 250],
              [name |-> "Wobbuffet", value |-> 190],
              [name |-> "Wigglytuff", value |-> 140],
              [name |-> "Vaporeon", value |-> 130]>>,
     attack |-> <<[name |-> "Mega Mewtwo X", value |-> 190],
                  [name |-> "Groudon", value |-> 180],
                  [name |-> "Kyogre", value |-> 180],
                  [name |-> "Rayquaza", value |-> 180],
                  [name |-> "Dialga", value |-> 170]>>,
     defense |-> <<[name |-> "Shuckle", value |-> 230],
                   [name |-> "Mega Steelix", value |-> 230],
                   [name |-> "Mega Aggron", value |-> 230],
                   [name |-> "Regirock", value |-> 200],
                   [name |-> "Cloyster", value |-> 180]>>,
     speed |-> <<[name |-> "Ninjask", value |-> 160],
                 [name |-> "Deoxys Speed", value |-> 180],
                 [name |-> "Electrode", value |-> 150],
                 [name |-> "Aerodactyl", value |-> 130],
                 [name |-> "Crobat", value |-> 130]>>]

SampleStatInputs ==
    {"hp", "attack", "defense", "speed", "Speed", "special attack"}

SampleLimitInputs == {-6, -5, -1, 0, 1, 2, 4, 5, 6, 10, 19, 20, 21}

SampleArgs ==
    {[stat_name |-> n] : n \in SampleStatInputs}
    \cup {[stat_name |-> n, limit |-> l] :
            n \in SampleStatInputs, l \in SampleLimitInputs}

\* stat_name.lower().replace(' ', '-')
stat_key(stat_name) ==
    CASE stat_name = "Speed" -> "speed"
      [] stat_name = "special attack" -> "special-attack"
      [] OTHER -> stat_name

\* PokemonAnalytics.get_stat_rankings
sample_rankings(stat_name, limit) ==
    IF stat_key(stat_name) \in DOMAIN sample_data
    THEN [kind |-> "ok", not_found |-> FALSE,
          sample_high_performers |->
              slice_to(sample_data[stat_key(stat_name)], limit)]
    ELSE [kind |-> "ok", not_found |-> TRUE,
          sample_high_performers |-> <<>>]

\* the tool: analytics.get_stat_rankings(stat_name, min(limit, 20))
sample_get_stat_rankings(args) ==
    sample_rankings(args.stat_name, Min(Arg(args, "limit", 10), 20))

SampleIdle ==
    /\ smPc = "idle"
    /\ smArgs = [stat_name |-> "hp"]
    /\ smOut = IdleResult

\* a caller invokes the get_stat_rankings tool of server.py
SampleRankings ==
    /\ smPc = "idle"
    /\ smPc' = "done"
    /\ smOut' = sample_get_stat_rankings(smArgs)
    /\ UNCHANGED <<smArgs, notSm>>

SampleNext == SampleRankings

(***************************************************************************)
(* Peer requests: PokedexAssistantA2A of pokedex_assistant/agent.py and    *)
(* PokemonAgentA2A of pokemon_agent/agent.py.  Each object holds one peer  *)
(* handle (None until a discovery succeeds); an operation runs without     *)
(* interruption up to its await of execute_task.                           *)
(***************************************************************************)
Agents == {"assistant", "pokemon"}

PeerOps ==
    {"request_pokemon_info", "enhanced_analysis_with_collaboration",
     "request_pokemon_comparison", "request_pokemon_trivia"}

\* the object an operation is a method of
AgentOf(op) ==
    IF op \in {"request_pokemon_info", "enhanced_analysis_with_collaboration"}
    THEN "assistant"
    ELSE "pokemon"

Callers == 1..MaxCallers

\* the request of the operation that enhanced_analysis_with_collaboration
\* hands over to
RequestOf(op) ==
    IF op = "enhanced_analysis_with_collaboration"
    THEN "request_pokemon_info"
    ELSE op

\* a returned str
Said(what, op) ==
    [kind |-> "string", says |-> what, op |-> op]

\* "The ... Agent is not available for ... right now."
not_available(op) ==
    Said("not available", RequestOf(op))

\* mutant: the exception of the remote call is not caught
remote_error_uncaught(op) ==
    RaisedResult

\* except Exception as e: return f"I couldn't get ... Error: {e}"
remote_error(op) ==
    Said("could not get", RequestOf(op))

\* return result
remote_result(op) ==
    Said("result", RequestOf(op))

\* discover_*_agent, called while no handle is held: the handle is held
\* afterwards iff RemoteA2aAgent(url=...) did not raise
discover(ok) ==
    ok

PeerIdle ==
    /\ prHandle = [a \in Agents |-> FALSE]
    /\ prTried = [a \in Agents |-> 0]
    /\ prFound = [a \in Agents |-> 0]
    /\ prCalls = 0
    /\ prPc = [c \in Callers |-> "idle"]
    /\ prOp = [c \in Callers |-> "request_pokemon_info"]
    /\ prOut = [c \in Callers |-> IdleResult]

\* the number of true values among the given ones
Count(flags) ==
    Cardinality({i \in 1..Len(flags) : flags[i]})

\* request_pokemon_info, request_pokemon_comparison, request_pokemon_trivia
\* up to the await of execute_task: discovery when no handle is held, then
\* the remote call if one is held, the fixed message otherwise
PeerRequest(c) ==
    /\ prPc[c] \in {"idle", "returned"}
    /\ prCalls < MaxCalls
    /\ \E op \in PeerOps \ {"enhanced_analysis_with_collaboration"},
          ok \in BOOLEAN :
         LET a == AgentOf(op)
             tries == ~prHandle[a]
             held == prHandle[a] \/ discover(ok)
         IN /\ prOp' = [prOp EXCEPT ![c] = op]
            /\ prHandle' = [prHandle EXCEPT ![a] = held]
            /\ prTried' = [prTried EXCEPT ![a] = @ + Count(<<tries>>)]
            /\ prFound' = [prFound EXCEPT ![a] = @ + Count(<<tries /\ held>>)]
            /\ IF held
               THEN /\ prPc' = [prPc EXCEPT ![c] = "executing"]
                    /\ prOut' = [prOut EXCEPT ![c] = IdleResult]
               ELSE /\ prPc' = [prPc EXCEPT ![c] = "returned"]
                    /\ prOut' = [prOut EXCEPT ![c] = not_available(op)]
    /\ prCalls' = prCalls + 1
    /\ UNCHANGED notPr

\* enhanced_analysis_with_collaboration up to the await of execute_task:
\* discovery when no handle is held; when the query asks for a description
\* of a known subject, request_pokemon_info (with its own discovery when
\* still no handle is held), the fixed answer otherwise
PeerEnhanced(c) ==
    /\ prPc[c] \in {"idle", "returned"}
    /\ prCalls < MaxCalls
    /\ \E ok1 \in BOOLEAN, ok2 \in BOOLEAN, asks \in BOOLEAN :
         LET op == "enhanced_analysis_with_collaboration"
             a == AgentOf(op)
             tries1 == ~prHandle[a]
             held1 == prHandle[a] \/ discover(ok1)
             tries2 == asks /\ ~held1
             held2 == held1 \/ (asks /\ discover(ok2))
         IN /\ prOp' = [prOp EXCEPT ![c] = op]
            /\ prHandle' = [prHandle EXCEPT ![a] = held2]
            /\ prTried' = [prTried EXCEPT ![a] = @ + Count(<<tries1, tries2>>)]
            /\ prFound' = [prFound EXCEPT
                             ![a] = @ + Count(<<tries1 /\ held1,
                                                tries2 /\ held2>>)]
            /\ IF ~asks
               THEN /\ prPc' = [prPc EXCEPT ![c] = "returned"]
                    /\ prOut' = [prOut EXCEPT ![c] = Said("processing", op)]
               ELSE IF held2
               THEN /\ prPc' = [prPc EXCEPT ![c] = "executing"]
                    /\ prOut' = [prOut EXCEPT ![c] = IdleResult]
               ELSE /\ prPc' = [prPc EXCEPT ![c] = "returned"]
                    /\ prOut' = [prOut EXCEPT ![c] = not_available(op)]
    /\ prCalls' = prCalls + 1
    /\ UNCHANGED notPr

\* execute_task ends: with a result, which is returned, or with an
\* exception, for which the error message is returned
PeerFinish(c) ==
    /\ prPc[c] = "executing"
    /\ \E raised \in BOOLEAN :
         prOut' = [prOut EXCEPT ![c] = IF raised THEN remote_error(prOp[c])
                                       ELSE remote_result(prOp[c])]
    /\ prPc' = [prPc EXCEPT ![c] = "returned"]
    /\ UNCHANGED <<prHandle, prTried, prFound, prCalls, prOp, notPr>>

PeerNext ==
    \E c \in Callers : PeerRequest(c) \/ PeerEnhanced(c) \/ PeerFinish(c)

(***************************************************************************)
(* Team improvements: suggest_team_improvements of                         *)
(* analytics-mcp-server/server.py, on the list in teamArgs.                *)
(***************************************************************************)
SuggestStrategies == {"balanced", "offensive", "defensive", "stall"}

\* analysis["stat_analysis"].get(stat, {}).get("average", 0), in tenths
average_of(stat_analysis_, stat) ==
    IF stat \in DOMAIN stat_analysis_ THEN stat_analysis_[stat].average ELSE 0

\* the recommendations of the weakness rules and of the strategy rules, in
\* the order they are appended
rule_recommendations(analysis, strategy) ==
    (IF "Limited type coverage" \in Range(analysis.weaknesses)
     THEN <<"Add Pokemon with different types to improve coverage">>
     ELSE <<>>)
    \o (IF "Below average stats" \in Range(analysis.weaknesses)
        THEN <<"Consider replacing weaker Pokemon with stronger alternatives">>
        ELSE <<>>)
    \o (IF strategy = "offensive"
           /\ average_of(analysis.stat_analysis, "attack") < 1000
        THEN <<"Add more high-attack Pokemon for offensive strategy">>
        ELSE <<>>)
    \o (IF strategy = "defensive"
           /\ average_of(analysis.stat_analysis, "hp") < 900
        THEN <<"Add more high-HP Pokemon for defensive strategy">>
        ELSE <<>>)

\* if not suggestions["recommendations"]: the one fixed recommendation
or_solid(recommendations) ==
    IF recommendations = <<>>
    THEN <<"Team composition looks solid! Consider testing different movesets.">>
    ELSE recommendations

suggest_team_improvements(cat, current_team, strategy) ==
    LET analysis == analyze_team_composition(cat, current_team)
    IN IF analysis.kind = "raised" THEN RaisedResult
       ELSE IF analysis.kind = "error" THEN analysis
       ELSE [kind |-> "ok",
             current_analysis |-> analysis,
             recommendations |->
                 or_solid(rule_recommendations(analysis, strategy)),
             strategy_focus |-> strategy]

SuggestIdle ==
    /\ sgPc = "idle"
    /\ sgStrategy = "balanced"
    /\ sgOut = IdleResult

\* a caller invokes the suggest_team_improvements tool
SuggestImprovements ==
    /\ sgPc = "idle"
    /\ sgPc' = "done"
    /\ sgOut' = suggest_team_improvements(catalog, teamArgs, sgStrategy)
    /\ UNCHANGED <<sgStrategy, notSg>>

SuggestNext == SuggestImprovements

ExtIdle ==
    /\ FetchIdle
    /\ TriviaIdle
    /\ DispatchIdle
    /\ SampleIdle
    /\ PeerIdle
    /\ SuggestIdle

ToolsIdle == EffectIdle /\ RankIdle /\ BuildIdle /\ TeamIdle /\ ExtIdle

(***************************************************************************)
(* Specifications.                                                         *)
(***************************************************************************)
CompareInit ==
    /\ catalog \in [Keys -> Datas] \cup {ExampleCatalog}
    /\ CompareIdle
    /\ CollabIdle
    /\ ExtractIdle
    /\ A2AIdle
    /\ ToolsIdle

SpecCompare == CompareInit /\ [][CompareNext]_vars

CollabInit ==
    /\ catalog = [k \in Keys |-> Missing]
    /\ CompareIdle
    /\ CollabIdle
    /\ ExtractIdle
    /\ A2AIdle
    /\ ToolsIdle

SpecCollab == CollabInit /\ [][CollabNext]_vars

ExtractInit ==
    /\ catalog = [k \in Keys |-> Missing]
    /\ CompareIdle
    /\ CollabIdle
    /\ exPc = "idle"
    /\ exTask \in PolledTasks(MaxLen)
    /\ exOut = NotRun
    /\ A2AIdle
    /\ ToolsIdle

SpecExtract == ExtractInit /\ [][ExtractNext]_vars

Init ==
    /\ catalog = [k \in Keys |-> Missing]
    /\ CompareIdle
    /\ CollabIdle
    /\ ExtractIdle
    /\ cliProg \in Programs
    /\ ClientIdle
    /\ ResponderIdle
    /\ ToolsIdle

Next == A2ANext

Spec == Init /\ [][Next]_vars

\* the responder process (with the transport) keeps running, and so does
\* the client, whose every awaited call ends: with its reply or, at the
\* latest, with the httpx timeout (ClientFault)
Fairness ==
    /\ WF_vars(ResponderNext)
    /\ WF_vars(ClientNext)

SpecLive == Spec /\ Fairness

EffectInit ==
    /\ catalog = [k \in Keys |-> Missing]
    /\ CompareIdle
    /\ CollabIdle
    /\ ExtractIdle
    /\ A2AIdle
    /\ tePc = "idle"
    /\ teUpstream \in TypeReplies
    /\ teArgs \in DefenderLists
    /\ teOut = IdleResult
    /\ RankIdle
    /\ BuildIdle
    /\ TeamIdle
    /\ ExtIdle

SpecEffect == EffectInit /\ [][EffectNext]_vars

RankInit ==
    /\ catalog \in [Keys -> Datas]
    /\ CompareIdle
    /\ CollabIdle
    /\ ExtractIdle
    /\ A2AIdle
    /\ EffectIdle
    /\ rkPc = "idle"
    /\ rkArgs \in RankingArgs
    /\ rkOut = IdleResult
    /\ BuildIdle
    /\ TeamIdle
    /\ ExtIdle

SpecRank == RankInit /\ [][RankNext]_vars

BuildInit ==
    /\ catalog = [k \in Keys |-> Missing]
    /\ CompareIdle
    /\ CollabIdle
    /\ ExtractIdle
    /\ A2AIdle
    /\ EffectIdle
    /\ RankIdle
    /\ tbPc = "idle"
    /\ tbArgs \in BuildArgs
    /\ tbOut = IdleResult
    /\ TeamIdle
    /\ ExtIdle

SpecBuild == BuildInit /\ [][BuildNext]_vars

TeamInit ==
    /\ catalog \in TeamCatalogs
    /\ CompareIdle
    /\ CollabIdle
    /\ ExtractIdle
    /\ A2AIdle
    /\ EffectIdle
    /\ RankIdle
    /\ BuildIdle
    /\ teamArgs \in TeamLists(MaxTeam)
    /\ taPc = "idle"
    /\ taOut = IdleResult
    /\ cvPc = "idle"
    /\ cvOut = IdleResult
    /\ ExtIdle

SpecTeam == TeamInit /\ [][TeamNext]_vars

FetchInit ==
    /\ catalog = [k \in Keys |-> Missing]
    /\ CompareIdle
    /\ CollabIdle
    /\ ExtractIdle
    /\ A2AIdle
    /\ EffectIdle
    /\ RankIdle
    /\ BuildIdle
    /\ TeamIdle
    /\ ftPc = "idle"
    /\ ftUp \in FetchReplies
    /\ ftArgs \in SearchArgs
    /\ ftSent = NoRequest
    /\ ftOut = IdleResult
    /\ ftData = IdleResult
    /\ TriviaIdle
    /\ DispatchIdle
    /\ SampleIdle
    /\ PeerIdle
    /\ SuggestIdle

SpecFetch == FetchInit /\ [][FetchNext]_vars

TriviaInit ==
    /\ catalog = [k \in Keys |-> Missing]
    /\ CompareIdle
    /\ CollabIdle
    /\ ExtractIdle
    /\ A2AIdle
    /\ EffectIdle
    /\ RankIdle
    /\ BuildIdle
    /\ TeamIdle
    /\ FetchIdle
    /\ tvPc = "idle"
    /\ tvSubject \in TriviaSubjects(MaxMetrics)
    /\ tvSpecies \in SpeciesReplies
    /\ tvOut = IdleResult
    /\ DispatchIdle
    /\ SampleIdle
    /\ PeerIdle
    /\ SuggestIdle

SpecTrivia == TriviaInit /\ [][TriviaNext]_vars

\* the documented example, nothing found, and a catalog in which raichu
\* lacks a metric pikachu has
DispatchCatalogs ==
    {ExampleCatalog, [k \in Keys |-> Missing],
     [k \in Keys |->
        IF k = "pikachu"
        THEN [found |-> TRUE, stats |-> [hp |-> 1, attack |-> 2]]
        ELSE [found |-> TRUE, stats |-> [hp |-> 1]]]}

DispatchInit ==
    /\ catalog \in DispatchCatalogs
    /\ CompareIdle
    /\ CollabIdle
    /\ ExtractIdle
    /\ A2AIdle
    /\ EffectIdle
    /\ RankIdle
    /\ BuildIdle
    /\ TeamIdle
    /\ FetchIdle
    /\ tvPc = "idle"
    /\ tvSubject \in TriviaSubjects(1)
    /\ tvSpecies \in {s \in SpeciesReplies :
                        s.found => Len(s.flavor_text_entries) <= 1}
    /\ tvOut = IdleResult
    /\ dsPc = "idle"
    /\ dsCall \in ToolCalls
    /\ dsFetches = <<>>
    /\ dsOut = IdleResult
    /\ SampleIdle
    /\ PeerIdle
    /\ SuggestIdle

SpecDispatch == DispatchInit /\ [][DispatchNext]_vars

SampleInit ==
    /\ catalog = [k \in Keys |-> Missing]
    /\ CompareIdle
    /\ CollabIdle
    /\ ExtractIdle
    /\ A2AIdle
    /\ EffectIdle
    /\ RankIdle
    /\ BuildIdle
    /\ TeamIdle
    /\ FetchIdle
    /\ TriviaIdle
    /\ DispatchIdle
    /\ smPc = "idle"
    /\ smArgs \in SampleArgs
    /\ smOut = IdleResult
    /\ PeerIdle
    /\ SuggestIdle

SpecSample == SampleInit /\ [][SampleNext]_vars

PeerInit ==
    /\ catalog = [k \in Keys |-> Missing]
    /\ CompareIdle
    /\ CollabIdle
    /\ ExtractIdle
    /\ A2AIdle
    /\ ToolsIdle

SpecPeer == PeerInit /\ [][PeerNext]_vars

SuggestInit ==
    /\ catalog = TeamDex
    /\ CompareIdle
    /\ CollabIdle
    /\ ExtractIdle
    /\ A2AIdle
    /\ EffectIdle
    /\ RankIdle
    /\ BuildIdle
    /\ teamArgs \in TeamLists(MaxTeam)
    /\ taPc = "idle"
    /\ taOut = IdleResult
    /\ cvPc = "idle"
    /\ cvOut = IdleResult
    /\ FetchIdle
    /\ TriviaIdle
    /\ DispatchIdle
    /\ SampleIdle
    /\ PeerIdle
    /\ sgPc = "idle"
    /\ sgStrategy \in SuggestStrategies
    /\ sgOut = IdleResult

SpecSuggest == SuggestInit /\ [][SuggestNext]_vars

(***************************************************************************)
(* Claims about stat comparison (checked under SpecCompare).               *)
(***************************************************************************)
Stats1 == catalog[cmpArgs[1]].stats

Stats2 == catalog[cmpArgs[2]].stats

\* a metric's value, 0 when the subject has no such metric
Val(s, m) == IF m \in DOMAIN s THEN s[m] ELSE 0

Total(s) == Val(s, "hp") + Val(s, "attack")

IsTie(w) == w \in {"tie", "Tie"}

\* the reported winner agrees in sign with the reported difference d
AgreesInSign(d, w, first, second) ==
    /\ d > 0 => w = first
    /\ d < 0 => w = second
    /\ d = 0 => IsTie(w)

\* C9 as stated: both implementations report, for every metric of A, the
\* signed difference A.value - B.value, and the reported winner agrees in
\* sign with the reported difference.
C9_Original ==
    /\ cmpServer.kind = "ok" =>
         /\ DOMAIN cmpServer.comparison = DOMAIN Stats1
         /\ \A m \in DOMAIN Stats1 :
              /\ cmpServer.comparison[m].difference = Stats1[m] - Stats2[m]
              /\ AgreesInSign(cmpServer.comparison[m].difference,
                              cmpServer.comparison[m].winner,
                              cmpArgs[1], cmpArgs[2])
    /\ cmpHttp.kind = "ok" =>
         /\ DOMAIN cmpHttp.differences = DOMAIN Stats1
         /\ \A m \in DOMAIN Stats1 :
              /\ cmpHttp.differences[m] = Stats1[m] - Stats2[m]
              /\ AgreesInSign(cmpHttp.differences[m], cmpHttp.winner_by_stat[m],
                              Capitalize(cmpArgs[1]), Capitalize(cmpArgs[2]))

\* C9 as amended: whenever a comparison is returned it has one entry per
\* metric of A; the winner is A when A.value > B.value, B when A.value <
\* B.value and the tie label when they are equal; http_server.py reports
\* the signed difference A.value - B.value (tie label "Tie"), server.py
\* reports its magnitude |A.value - B.value| (tie label "tie").
C9_Amended ==
    /\ cmpServer.kind = "ok" =>
         /\ DOMAIN cmpServer.comparison = DOMAIN Stats1
         /\ \A m \in DOMAIN Stats1 :
              LET e == cmpServer.comparison[m]
              IN /\ e.difference >= 0
                 /\ e.difference \in {Stats1[m] - Stats2[m], Stats2[m] - Stats1[m]}
                 /\ Stats1[m] > Stats2[m] => e.winner = cmpArgs[1]
                 /\ Stats1[m] < Stats2[m] => e.winner = cmpArgs[2]
                 /\ Stats1[m] = Stats2[m] => e.winner = "tie"
    /\ cmpHttp.kind = "ok" =>
         /\ DOMAIN cmpHttp.differences = DOMAIN Stats1
         /\ DOMAIN cmpHttp.winner_by_stat = DOMAIN Stats1
         /\ \A m \in DOMAIN Stats1 :
              /\ cmpHttp.differences[m] = Stats1[m] - Stats2[m]
              /\ Stats1[m] > Stats2[m] =>
                   cmpHttp.winner_by_stat[m] = Capitalize(cmpArgs[1])
              /\ Stats1[m] < Stats2[m] =>
                   cmpHttp.winner_by_stat[m] = Capitalize(cmpArgs[2])
              /\ Stats1[m] = Stats2[m] => cmpHttp.winner_by_stat[m] = "Tie"

\* C9 witness: server.py compared two subjects, one metric tied and another
\* was won by the second subject, reported with a positive difference.
C9_Witness ==
    /\ cmpPc = "done"
    /\ cmpServer.kind = "ok"
    /\ cmpArgs[1] # cmpArgs[2]
    /\ \E m \in DOMAIN Stats1 : cmpServer.comparison[m].winner = "tie"
    /\ \E m \in DOMAIN Stats1 :
         /\ cmpServer.comparison[m].winner = cmpArgs[2]
         /\ cmpServer.comparison[m].difference > 0

\* the documented example was compared by server.py, first subject first
ExampleCompared ==
    /\ cmpServer.kind = "ok"
    /\ catalog = ExampleCatalog
    /\ cmpArgs = <<"pikachu", "raichu">>

\* the overall winner is decided on the sums, and the output carries both
\* subjects' full metric maps and their totals
OverallWinnerBySum ==
    /\ cmpServer.kind = "ok" =>
         /\ cmpServer.pokemon1.stats = Stats1
         /\ cmpServer.pokemon2.stats = Stats2
         /\ cmpServer.pokemon1.total = Total(Stats1)
         /\ cmpServer.pokemon2.total = Total(Stats2)
         /\ Total(Stats1) > Total(Stats2) => cmpServer.overall_winner = cmpArgs[1]
         /\ Total(Stats1) < Total(Stats2) => cmpServer.overall_winner = cmpArgs[2]
         /\ Total(Stats1) = Total(Stats2) => cmpServer.overall_winner = "tie"
    /\ cmpHttp.kind = "ok" =>
         /\ cmpHttp.pokemon1.stats = Stats1
         /\ cmpHttp.pokemon2.stats = Stats2
         /\ cmpHttp.pokemon1.total_stats = Total(Stats1)
         /\ cmpHttp.pokemon2.total_stats = Total(Stats2)

\* C10 as stated: the overall winner is decided on the sum of all metrics
\* of each subject (A if sum(A) > sum(B), B if sum(A) < sum(B), "tie" if
\* equal), the output carries both subjects' full metric maps and totals,
\* and {hp:35, attack:55} vs {hp:60, attack:50} gives totals 95 vs 110 with
\* the second subject as overall winner.
C10_Original ==
    /\ OverallWinnerBySum
    /\ ExampleCompared =>
         /\ cmpServer.pokemon1.total = 95
         /\ cmpServer.pokemon2.total = 110
         /\ cmpServer.overall_winner = "raichu"

\* C10 as amended: as stated, except that the example's totals are 90 vs
\* 110 (35 + 55 = 90); the second subject is still the overall winner, wins
\* hp, and the first subject wins attack.
C10_Amended ==
    /\ OverallWinnerBySum
    /\ ExampleCompared =>
         /\ cmpServer.pokemon1.total = 90
         /\ cmpServer.pokemon2.total = 110
         /\ cmpServer.overall_winner = "raichu"
         /\ cmpServer.comparison["hp"].winner = "raichu"
         /\ cmpServer.comparison["attack"].winner = "pikachu"

\* C10 witness: the documented example was compared: the first subject
\* wins a metric but the second subject has the larger sum and is reported
\* as overall winner.
C10_Witness ==
    /\ cmpPc = "done"
    /\ ExampleCompared
    /\ cmpServer.overall_winner = cmpArgs[2]
    /\ cmpArgs[1] # cmpArgs[2]
    /\ \E m \in DOMAIN Stats1 : cmpServer.comparison[m].winner = cmpArgs[1]
    /\ cmpServer.pokemon1.total < cmpServer.pokemon2.total


(***************************************************************************)
(* Claims about the coordinator (checked under SpecCollab).                *)
(***************************************************************************)
StepsOf(agent) == {i \in Steps : StepAgent(i) = agent}

Returned == {i \in Steps : coOutcome[i].kind # "none"}

Posted == {coLog[k].step : k \in 1..Len(coLog)}

\* C2: if a delegated specialist call fails (non-200 status, transport
\* exception or timeout) the multi-specialist turn still returns: no failure
\* of a delegate raises out of the turn, every step that succeeded
\* contributes its specialist's answer and every step that failed
\* contributes an error note naming the failed specialist.
C2_DelegateFailureAbsorbed ==
    /\ coPc # "raised"
    /\ \A i \in Returned :
         /\ coOutcome[i].kind = "ok" =>
              coLocals[i] = [kind |-> "answer", from |-> StepAgent(i)]
         /\ coOutcome[i].kind # "ok" =>
              /\ coLocals[i].kind = "error"
              /\ coLocals[i].from = StepAgent(i)
    /\ coPc = "done" =>
         /\ Returned = Steps
         /\ DOMAIN coResult = ResultKeys
         /\ \A i \in Steps : coResult[StepKey(i)] = coLocals[i]

\* C2 witness: the basic-info specialist failed both times (a timeout and
\* a non-200 status) and the turn returned the analytics specialist's three
\* answers plus two error notes.
C2_Witness ==
    /\ coPc = "done"
    /\ coOutcome[1].kind = "timeout"
    /\ coOutcome[2].kind = "status"
    /\ \A i \in StepsOf("pokemon") : coResult[StepKey(i)].kind = "error"
    /\ \A i \in StepsOf("assistant") : coResult[StepKey(i)].kind = "answer"

\* C3: delegation is strictly sequential with basic-info first: a request
\* to the analytics specialist is posted only after every basic-info
\* request of the turn has returned, requests are posted in program order,
\* and never are two delegated requests in flight at once.
C3_SequentialBasicFirst ==
    /\ Cardinality(coInflight) <= 1
    /\ \A k \in 1..Len(coLog) : coLog[k].step = k
    /\ \A i \in Posted :
         StepAgent(i) = "assistant" => StepsOf("pokemon") \subseteq Returned
    /\ \A i \in Posted, j \in Steps : j < i => j \in Returned

\* C3 witness: an analytics request is in flight, after both basic-info
\* requests have returned.
C3_Witness ==
    /\ coPc = "running"
    /\ coInflight = {3}
    /\ StepsOf("pokemon") \subseteq Returned


(***************************************************************************)
(* Claims about answer extraction (checked under SpecExtract).             *)
(***************************************************************************)
AnyPartHasText(p) == p # "no_text"

HasTextPart(parts) == \E j \in 1..Len(parts) : AnyPartHasText(parts[j])

\* the last assistant message of the history that contains a text part
LastAssistantWithText(h) ==
    IF \E i \in 1..Len(h) : IsAssistant(h[i]) /\ HasTextPart(h[i].parts)
    THEN CHOOSE i \in 1..Len(h) :
           /\ IsAssistant(h[i]) /\ HasTextPart(h[i].parts)
           /\ \A l \in (i + 1)..Len(h) :
                ~(IsAssistant(h[l]) /\ HasTextPart(h[l].parts))
    ELSE 0

\* the extraction order the claim describes
ClaimedAnswer(task) ==
    IF task.artifacts # <<>> /\ HasTextPart(task.artifacts[1].parts)
    THEN Printed("artifact", 1, FirstIndex(task.artifacts[1].parts, AnyPartHasText))
    ELSE LET i == LastAssistantWithText(task.history)
         IN IF i # 0
            THEN Printed("history", i, FirstIndex(task.history[i].parts, AnyPartHasText))
            ELSE Empty

\* C7: the answer extracted from a polled task is the first text part of
\* the first artifact; otherwise the text of the last history message with
\* role "assistant" that has a text part; otherwise the distinct
\* completed-but-empty outcome.  In particular a first artifact without a
\* text part and a history with an assistant text message yield that
\* message.
\* (Printing nothing at all is counted here as the empty outcome.)
C7_ExtractionOrder ==
    (exPc = "done" /\ exTask.other = "none") =>
        (IF exOut = Silent THEN Empty ELSE exOut) = ClaimedAnswer(exTask)


(***************************************************************************)
(* Claims about the task protocol (checked under Spec and SpecLive).       *)
(***************************************************************************)
Awaiting(t) == tasks[t].state \in {"submitted", "working"}

\* the delivered request is a follow-up for task t that echoes t's context
FollowUpDelivered(t) ==
    /\ inbox.kind = "send"
    /\ inbox.payload.taskId = t
    /\ inbox.payload.contextId = tasks[t].context_id

\* C1: once a task's state is completed or failed it never changes again:
\* no send-message, get-task or responder step moves a task out of
\* completed or failed.
C1_TerminalStable ==
    [][\A t \in TaskIds :
         tasks[t].state \in Terminal => tasks'[t].state = tasks[t].state]_vars

\* C1 witness: a get-task poll showed a task in a terminal state, and the
\* task is in that state still.
C1_Witness ==
    /\ cliSeen.kind = "task"
    /\ cliSeen.task.state \in Terminal
    /\ tasks[cliSeen.task.id].state = cliSeen.task.state

\* what the client's payloads must look like
ContextEchoed ==
    /\ \A k \in 1..Len(cliSent) :
         (cliProg # "multi" \/ k = 1) =>
             cliSent[k].contextId = None /\ cliSent[k].taskId = None
    /\ (cliProg = "multi" /\ Len(cliSent) >= 2) =>
         /\ Len(cliSent) = 2
         /\ cliSent[2].taskId = cliTask.id
         /\ cliSent[2].taskId # None
         /\ cliSent[2].contextId = cliTask.context_id
         /\ cliSent[2].contextId # None
         /\ cliSent[2].contextId = tasks[cliSent[2].taskId].context_id

\* C4: a conversation's context_id is assigned exactly once, by the
\* responder, on the first turn: the client's first turn carries no
\* contextId, every task gets its context id when it is created and keeps
\* it, and the follow-up turn carries exactly the context_id the first
\* turn returned together with the id of the task it continues.
C4_ContextAssignedOnce ==
    /\ []ContextEchoed
    /\ [](\A t \in TaskIds : Exists(tasks, t) => tasks[t].context_id # None)
    /\ [][\A t \in TaskIds :
            Exists(tasks, t) => tasks'[t].context_id = tasks[t].context_id]_vars

\* C4 witness: the multi-turn routine sent its follow-up and the responder
\* took it as the second turn of the task.
C4_Witness ==
    /\ cliProg = "multi"
    /\ Len(cliSent) = 2
    /\ tasks[cliSent[2].taskId].turns = 2

\* C5: a task in input_required eventually leaves that state once a
\* follow-up turn carrying the same context_id has reached the responder
\* (under fairness of the responder).
C5_InputRequiredResolves ==
    \A t \in TaskIds :
        (tasks[t].state = "input_required" /\ FollowUpDelivered(t))
            ~> (tasks[t].state # "input_required")

\* C5 witness: a task that asked for input got its follow-up and went on
\* to complete.
C5_Witness ==
    \E t \in TaskIds : tasks[t].turns = 2 /\ tasks[t].state = "completed"

\* C6: a task never stays in submitted or working forever, it reaches
\* completed, input_required or failed; and a failed task carries the error
\* message as its sole artifact.
C6_NeverStuckWorking ==
    /\ \A t \in TaskIds : Awaiting(t) ~> (tasks[t].state \in Settled)
    /\ [](\A t \in TaskIds :
            tasks[t].state = "failed" => tasks[t].artifacts = <<"error">>)

\* C6 witness: a task failed, with the error message as its only artifact.
C6_Witness ==
    \E t \in TaskIds :
        tasks[t].state = "failed" /\ tasks[t].artifacts = <<"error">>

\* C8: the client never polls indefinitely: it issues at most one get-task
\* poll per sent message, takes whatever task state the poll shows
\* (terminal or not) without polling again, sends at most one message per
\* query, and the routine (the loop over the queries) always ends.
C8_BoundedPolling ==
    /\ [](cliPolls <= 1)
    /\ [](Len(cliSent) <= IF cliProg = "multi" THEN 2 ELSE cliQuery)
    /\ [](cliQuery <= NumQueries)
    /\ <>(cliPc \in {"done", "aborted"})

\* C8 witness: the loop ended after its last poll showed a task that was
\* still working.
C8_Witness ==
    /\ cliProg = "loop"
    /\ cliPc = "done"
    /\ cliQuery = NumQueries
    /\ cliPolls = 1
    /\ cliSeen.kind = "task"
    /\ cliSeen.task.state = "working"

(***************************************************************************)
(* Claims about type effectiveness (checked under SpecEffect).             *)
(***************************************************************************)
\* positions of the defending categories the attacker is strong against
StrongAt == {i \in 1..Len(teArgs) : Lower(teArgs[i]) \in teUpstream.double_damage_to}

\* ... is weak against (and not strong against)
WeakAt ==
    {i \in 1..Len(teArgs) :
        /\ i \notin StrongAt
        /\ Lower(teArgs[i]) \in teUpstream.half_damage_to}

\* ... has no effect on (and is neither strong nor weak against)
NoEffectAt ==
    {i \in 1..Len(teArgs) :
        /\ i \notin StrongAt \cup WeakAt
        /\ Lower(teArgs[i]) \in teUpstream.no_damage_to}

\* 1.0 multiplied by 2.0 per strong, 0.5 per weak and 0.0 per no-effect
\* defending category, as a closed form in units of 1/Scale
ClaimedMultiplier ==
    IF NoEffectAt # {} THEN 0
    ELSE (Scale * (2 ^ Cardinality(StrongAt))) \div (2 ^ Cardinality(WeakAt))

EffectReturned == tePc = "done" /\ teOut.kind = "ok"

\* C11: the multiplier is the product, starting at 1.0, of x2.0 for each
\* defending category in the strong-against set, x0.5 for each in the
\* weak-against set, x0.0 for each in the no-effect set and x1.0 for the
\* others; with no defending category it is 1.0 with description "Normal
\* effectiveness", with one strong-against and one unrelated category 2.0.
C11_MultiplierIsFold ==
    EffectReturned =>
        /\ teOut.effectiveness_multiplier = ClaimedMultiplier
        /\ teArgs = <<>> =>
              /\ teOut.effectiveness_multiplier = Scale
              /\ teOut.description = "Normal effectiveness"
        /\ (/\ Len(teArgs) = 2
            /\ Cardinality(StrongAt) = 1
            /\ WeakAt = {}
            /\ NoEffectAt = {}) => teOut.effectiveness_multiplier = 2 * Scale

\* C11 witness: a call with one strong-against and one unrelated defending
\* category returned 2.0.
C11_Witness ==
    /\ EffectReturned
    /\ Len(teArgs) = 2
    /\ StrongAt = {1}
    /\ WeakAt = {}
    /\ NoEffectAt = {}
    /\ teOut.effectiveness_multiplier = 2 * Scale

\* the bucket the specification names for a multiplier reached by the fold:
\* 0, or 2^e for the exponent e = #strong - #weak
ClaimedDescription ==
    LET e == Cardinality(StrongAt) - Cardinality(WeakAt)
    IN IF NoEffectAt # {} THEN "No effect!"
       ELSE IF e >= 2 THEN "Extremely effective!"
       ELSE IF e = 1 THEN "Super effective!"
       ELSE IF e = 0 THEN "Normal effectiveness"
       ELSE IF e = -1 THEN "Not very effective..."
       ELSE "Barely effective..."

Descriptions ==
    {"Extremely effective!", "Super effective!", "Normal effectiveness",
     "Not very effective...", "Barely effective...", "No effect!"}

\* C12: the description is a total function of the multiplier: every
\* multiplier the fold reaches (0 or a power of two) gets one of the six
\* descriptions, the one of its bucket (>= 4.0 extremely, >= 2.0 super,
\* == 1.0 normal, >= 0.5 not very, > 0 barely, == 0 no effect).
C12_DescriptionBuckets ==
    EffectReturned =>
        /\ teOut.description \in Descriptions
        /\ teOut.description = ClaimedDescription

\* C12 witness: a call with two strong-against defending categories
\* returned 4.0, described as extremely effective.
C12_Witness ==
    /\ EffectReturned
    /\ teOut.effectiveness_multiplier = 4 * Scale
    /\ teOut.description = "Extremely effective!"

IndexPermutations(n) == {p \in [1..n -> 1..n] : \A i \in 1..n : \E j \in 1..n : p[j] = i}

\* C13: for every permutation of the defending categories the multiplier
\* and the description are the same, while details has one entry per
\* defending category, in the order given.
C13_OrderIndependent ==
    EffectReturned =>
        /\ Len(teOut.details) = Len(teArgs)
        /\ \A i \in 1..Len(teArgs) : teOut.details[i].type = teArgs[i]
        /\ \A p \in IndexPermutations(Len(teArgs)) :
              LET permuted == [i \in 1..Len(teArgs) |-> teArgs[p[i]]]
                  r == get_type_effectiveness(teUpstream, permuted)
              IN /\ r.effectiveness_multiplier = teOut.effectiveness_multiplier
                 /\ r.description = teOut.description
                 /\ \A i \in 1..Len(teArgs) : r.details[i] = teOut.details[p[i]]

\* C13 witness: a call whose first defending category is strong-against and
\* whose second is weak-against returned.
C13_Witness ==
    /\ EffectReturned
    /\ Len(teArgs) >= 2
    /\ 1 \in StrongAt
    /\ 2 \in WeakAt
    /\ teOut.details[1].text = "Super effective against"
    /\ teOut.details[2].text = "Not very effective against"

(***************************************************************************)
(* Claims about ranked listing (checked under SpecRank).                   *)
(***************************************************************************)
RankReturned == rkPc = "done" /\ rkOut.kind = "ok"

\* the subject at position i of the list resolved
ResolvedAt(i) == catalog[rkArgs.pokemon_list[i]].found

\* ... and carries the requested metric
RankableAt(i) ==
    /\ ResolvedAt(i)
    /\ rkArgs.stat_name \in DOMAIN catalog[rkArgs.pokemon_list[i]].stats

\* the names of the subjects of the list at the positions satisfying At,
\* in input order
RECURSIVE NamesWhere(_, _)
NamesWhere(At(_), k) ==
    IF k = 0 THEN <<>>
    ELSE IF At(k) THEN Append(NamesWhere(At, k - 1), Capitalize(rkArgs.pokemon_list[k]))
    ELSE NamesWhere(At, k - 1)

\* how often name n occurs in the sequence of names ns
Occurrences(ns, n) == Cardinality({i \in 1..Len(ns) : ns[i] = n})

RankedNames == [i \in 1..Len(rkOut.rankings) |-> rkOut.rankings[i].name]

\* the ranked entries are, as a collection, the subjects at the positions
\* satisfying At
RanksExactly(At(_)) ==
    LET expected == NamesWhere(At, Len(rkArgs.pokemon_list))
    IN /\ Len(rkOut.rankings) = Len(expected)
       /\ \A k \in Keys :
             Occurrences(RankedNames, Capitalize(k)) = Occurrences(expected, Capitalize(k))

\* sorted highest first, ties in input order, ranks 1..n, each entry with
\* its subject's value of the metric
SortedStableRanked ==
    LET r == rkOut.rankings
        metric(i) == catalog[rkArgs.pokemon_list[i]].stats[rkArgs.stat_name]
        TiedAt(v) == LET At(i) == RankableAt(i) /\ metric(i) = v
                     IN NamesWhere(At, Len(rkArgs.pokemon_list))
    IN /\ \A i \in 1..Len(r) : r[i].rank = i
       /\ \A i \in 1..(Len(r) - 1) : r[i].value >= r[i + 1].value
       /\ \A v \in 0..MaxStat :
             LET HasV(e) == e.value = v
                 tied == SelectSeq(r, HasV)
             IN [i \in 1..Len(tied) |-> tied[i].name] = TiedAt(v)

\* C14 as stated: the ranked listing returns exactly the subjects that
\* resolved, sorted in non-increasing order of the metric with ties in
\* input order and ranks 1..n; a subject that fails to resolve only
\* shortens the output.
C14_Original ==
    RankReturned => RanksExactly(ResolvedAt) /\ SortedStableRanked

\* C14 amended: the ranked listing returns exactly the subjects that
\* resolved and carry the requested metric (a subject that does not resolve
\* or lacks the metric is skipped), sorted in non-increasing order of the
\* metric with ties in input order and ranks 1..n; the call always returns.
C14_Amended ==
    /\ rkPc = "done" => rkOut.kind = "ok"
    /\ RankReturned => RanksExactly(RankableAt) /\ SortedStableRanked

\* C14 witness: a list of three entries over two different subjects with
\* the same value was ranked, the ties in input order.
C14_Witness ==
    /\ RankReturned
    /\ rkArgs.pokemon_list = <<"raichu", "pikachu", "raichu">>
    /\ Len(rkOut.rankings) = 3
    /\ rkOut.rankings[1].value = rkOut.rankings[3].value
    /\ RankedNames = <<"Raichu", "Pikachu", "Raichu">>
    /\ rkOut.rankings[3].rank = 3

\* C15: the summary is the first ranked entry (highest), the last ranked
\* entry (lowest) and the arithmetic mean of the metric over the ranked
\* entries; when nothing is ranked the call still succeeds, with an empty
\* rankings list, highest = lowest = null and average = 0.
C15_Summary ==
    /\ rkPc = "done" => rkOut.kind = "ok"
    /\ RankReturned =>
         LET r == rkOut.rankings
             sm == rkOut.summary
         IN IF r = <<>>
            THEN /\ sm.highest = NoEntry
                 /\ sm.lowest = NoEntry
                 /\ sm.average.num = 0
            ELSE /\ sm.highest = r[1]
                 /\ sm.lowest = r[Len(r)]
                 /\ \A i \in 1..Len(r) :
                       sm.highest.value >= r[i].value /\ r[i].value >= sm.lowest.value
                 /\ sm.average.den > 0
                 /\ sm.average.num * Len(r) = sum_values(r, Len(r)) * sm.average.den

\* C15 witness: a call on a non-empty list none of whose subjects resolved
\* returned an empty ranking with the null summary.
C15_Witness ==
    /\ RankReturned
    /\ rkArgs.pokemon_list # <<>>
    /\ \A i \in 1..Len(rkArgs.pokemon_list) : ~ResolvedAt(i)
    /\ rkOut.rankings = <<>>
    /\ rkOut.summary.highest = NoEntry
    /\ rkOut.summary.average.num = 0

(***************************************************************************)
(* Claims about team build (checked under SpecBuild).                      *)
(***************************************************************************)
KnownStrategies == {"balanced", "offensive", "defensive"}

BuildReturned == tbPc = "done" /\ tbOut.kind = "ok"

\* C16: team build returns an error payload when the strategy is not one of
\* balanced, offensive, defensive; otherwise, for every requested size
\* (0, negative and larger than the roster included), the selected entries
\* are the first min(requested_size, roster_length) entries of the
\* strategy's roster and team_size is the number of selected entries.
C16_TeamTruncated ==
    tbPc = "done" =>
        IF tbArgs.strategy \notin KnownStrategies
        THEN tbOut.kind = "error"
        ELSE /\ tbOut.kind = "ok"
             /\ tbOut.selected_pokemon =
                    SubSeq(strategies[tbArgs.strategy], 1,
                           Min(tbArgs.team_size, Len(strategies[tbArgs.strategy])))
             /\ tbOut.team_size = Len(tbOut.selected_pokemon)

\* the categories of the selected entries
SelectedCategories ==
    UNION {Range(tbOut.selected_pokemon[i].types) :
              i \in 1..Len(tbOut.selected_pokemon)}

\* C17: type_coverage lists every category of the selected entries and
\* nothing else, each exactly once; strategy "offensive" with size 3
\* returns the first 3 entries of its roster and the duplicate-free
\* coverage of their categories.
C17_TypeCoverage ==
    BuildReturned =>
        /\ BagToSet(tbOut.type_coverage) = SelectedCategories
        /\ \A t \in SelectedCategories : CopiesIn(t, tbOut.type_coverage) = 1
        /\ (tbArgs.strategy = "offensive" /\ tbArgs.team_size = 3) =>
              /\ tbOut.selected_pokemon = SubSeq(strategies.offensive, 1, 3)
              /\ BagToSet(tbOut.type_coverage) =
                    {"Dragon", "Flying", "Steel", "Psychic", "Ghost", "Poison"}

\* C17 witness: an offensive team of 4 was built; its fourth entry repeats
\* a category (Steel) of the second.
C17_Witness ==
    /\ BuildReturned
    /\ tbArgs.strategy = "offensive"
    /\ tbArgs.team_size = 4
    /\ Len(tbOut.selected_pokemon) = 4
    /\ CopiesIn("Steel", tbOut.type_coverage) = 1
    /\ BagCardinality(tbOut.type_coverage) = 7

(***************************************************************************)
(* Claims about team analysis and coverage score (checked under SpecTeam). *)
(***************************************************************************)
\* the positions of the list whose subject resolved
TeamResolved == {i \in 1..Len(teamArgs) : catalog[teamArgs[i]].found}

\* how many category entries of resolved subjects of the list name t
TeamOccurrences(t) ==
    Cardinality({<<i, j>> \in TeamResolved \X (1..2) :
                    /\ j <= Len(catalog[teamArgs[i]].types)
                    /\ catalog[teamArgs[i]].types[j] = t})

\* the distinct categories of the resolved subjects, as the data source
\* names them
TeamCategories == UNION {Range(catalog[teamArgs[i]].types) : i \in TeamResolved}

\* C18: team analysis skips the subjects whose lookup fails and analyses
\* the others: it returns the no-data error only if every lookup failed;
\* whenever a subject of the list resolves the result is an analysis whose
\* team_size is the number of resolved subjects and whose per-category
\* counts are the numbers of occurrences among the resolved subjects.
C18_SkipsFailedLookups ==
    taPc = "done" =>
        IF TeamResolved = {}
        THEN taOut.kind = "error"
        ELSE /\ taOut.kind = "ok"
             /\ taOut.team_size = Cardinality(TeamResolved)
             /\ DOMAIN taOut.type_distribution = TeamCategories
             /\ \A t \in TeamCategories :
                   taOut.type_distribution[t] = TeamOccurrences(t)

TeamAnalysed == taPc = "done" /\ taOut.kind = "ok"

\* the sum of the totals of the resolved subjects of the list
TeamTotal ==
    LET totals == [i \in 1..Len(teamArgs) |->
                      IF i \in TeamResolved
                      THEN SumValues(catalog[teamArgs[i]].stats) ELSE 0]
    IN SumOver(totals, 1..Len(teamArgs))

\* C19: a distinct category count >= 10 adds the excellent-coverage
\* strength, >= 6 (and < 10) the good-coverage strength, otherwise the
\* limited-coverage weakness, exactly one of the three being present; a
\* mean of the subjects' totals >= 500 adds the high-stats strength, <= 400
\* the below-average weakness, a mean strictly between adds neither.
C19_StrengthRules ==
    TeamAnalysed =>
        LET n == Cardinality(TeamCategories)
            c == Cardinality(TeamResolved)
            st == Range(taOut.strengths)
            wk == Range(taOut.weaknesses)
        IN /\ "Excellent type coverage" \in st <=> n >= 10
           /\ "Good type coverage" \in st <=> (n >= 6 /\ n < 10)
           /\ "Limited type coverage" \in wk <=> n < 6
           /\ "High overall stats" \in st <=> TeamTotal >= 500 * c
           /\ "Below average stats" \in wk <=> TeamTotal <= 400 * c
           /\ st \subseteq {"Excellent type coverage", "Good type coverage",
                            "High overall stats"}
           /\ wk \subseteq {"Limited type coverage", "Below average stats"}
           /\ Len(taOut.strengths) = Cardinality(st)
           /\ Len(taOut.weaknesses) = Cardinality(wk)

\* C19 witness: a team of exactly six distinct categories whose mean total
\* lies strictly between 400 and 500 got the good-coverage strength and
\* nothing else.
C19_Witness ==
    /\ TeamAnalysed
    /\ Cardinality(TeamCategories) = 6
    /\ TeamTotal > 400 * Cardinality(TeamResolved)
    /\ TeamTotal < 500 * Cardinality(TeamResolved)
    /\ taOut.strengths = <<"Good type coverage">>
    /\ taOut.weaknesses = <<>>

\* the important categories the coverage score flags as missing
FlaggedMissing ==
    UNION {Range(cvOut.recommendations[i].types) :
              i \in {j \in 1..Len(cvOut.recommendations) :
                        cvOut.recommendations[j].kind = "missing_important"}}

\* C20: the coverage score flags an important category as missing if and
\* only if no resolved member of the team has that category, for each of
\* the eight important categories.
C20_MissingIffAbsent ==
    (cvPc = "done" /\ cvOut.kind = "ok") =>
        \A t \in Range(important_types) :
            t \in FlaggedMissing <=> Lower18(t) \notin TeamCategories

CoverageReturned == cvPc = "done" /\ cvOut.kind = "ok"

RecommendationKinds ==
    {cvOut.recommendations[i].kind : i \in 1..Len(cvOut.recommendations)}

\* C21: the coverage percentage is distinct_category_count / 18 * 100
\* rounded to one decimal (in tenths: the integer nearest to 1000 * n / 18),
\* lies in 0..100 and is exactly 50.0 for 9 distinct categories; the
\* diversify recommendation is present iff the count is < 6, the praise iff
\* it is >= 12.
C21_CoveragePercentage ==
    CoverageReturned =>
        LET n == Cardinality(TeamCategories)
            p == cvOut.coverage_percentage
        IN /\ cvOut.type_coverage_score = n
           /\ 2 * Abs(18 * p - 1000 * n) <= 18
           /\ p >= 0 /\ p <= 1000
           /\ n = 9 => p = 500
           /\ "limited_diversity" \in RecommendationKinds <=> n < 6
           /\ "excellent_coverage" \in RecommendationKinds <=> n >= 12

\* C21 witness: a team of exactly 9 distinct categories scored 50.0, with
\* neither the diversify recommendation nor the praise.
C21_Witness ==
    /\ CoverageReturned
    /\ Cardinality(TeamCategories) = 9
    /\ cvOut.coverage_percentage = 500
    /\ "limited_diversity" \notin RecommendationKinds
    /\ "excellent_coverage" \notin RecommendationKinds


(***************************************************************************)
(* Claims about what crosses a tool's boundary (checked under              *)
(* SpecCompare).                                                           *)
(***************************************************************************)

\* C22: no tool handler raises past its boundary: for every input and every
\* upstream outcome, including a body in which one subject lacks a metric
\* the other has, the caller of the server.py comparison tool receives a
\* result or an error payload, never an exception.
C22_NeverRaises ==
    cmpPc = "done" => cmpServer.kind # "raised"


(***************************************************************************)
(* Claims about catalog fetch (checked under SpecFetch).                   *)
(***************************************************************************)

\* the failure condition an upstream outcome falls under
Condition(up) ==
    IF up.kind = "transport" THEN "Transport"
    ELSE IF up.status = 404 THEN "NotFound"
    ELSE IF up.status # 200 THEN "UpstreamError"
    ELSE IF ~up.body.json THEN "InvalidResponse"
    ELSE "ok"

\* the outcomes that fall under another failure condition than the one of
\* this call
OtherFailures ==
    {u \in FetchReplies : /\ Condition(u) # "ok"
                          /\ Condition(ftUp) # "ok"
                          /\ Condition(u) # Condition(ftUp)}

\* C23: the fetch adapter maps transport failure, HTTP 404, any other
\* non-2xx status and an unparseable body to distinguishable error results:
\* what a call returned under one failure condition is never what it
\* returns under another one.
C23_DistinctErrorKinds ==
    \A u \in OtherFailures :
        /\ ftPc = "data" => analytics_get_pokemon_data(u) # ftData
        /\ ftPc = "info" => get_pokemon_info(u) # ftOut

SearchReturned == ftPc = "search"

\* the last text between slashes that is a number
TrailingNumeric(url) ==
    LET numeric == {i \in 1..Len(url) : url[i] \in {"1", "25"}}
    IN url[CHOOSE i \in numeric : \A j \in numeric : j <= i]

\* C25: search_pokemon never sends a limit above 100 upstream: the limit
\* sent is min(requested, 100), 20 when unspecified, and the offset is sent
\* unchanged (0 when unspecified); each returned entry's id is the trailing
\* numeric path segment of its url.
C25_LimitCapped ==
    SearchReturned =>
        /\ ftSent.limit <= 100
        /\ "limit" \in DOMAIN ftArgs =>
               ftSent.limit = Min(ftArgs.limit, 100)
        /\ "limit" \notin DOMAIN ftArgs => ftSent.limit = 20
        /\ "offset" \in DOMAIN ftArgs => ftSent.offset = ftArgs.offset
        /\ "offset" \notin DOMAIN ftArgs => ftSent.offset = 0
        /\ ftOut.kind = "ok" =>
               \A i \in 1..Len(ftOut.pokemon) :
                   ftOut.pokemon[i].id = TrailingNumeric(ftOut.pokemon[i].url)

\* C25 witness: a search asking for 150 entries from offset 40 sent limit
\* 100 and offset 40, and returned a page of two entries with their ids
C25_Witness ==
    /\ SearchReturned
    /\ ftArgs = [limit |-> 150, offset |-> 40]
    /\ ftSent = [limit |-> 100, offset |-> 40]
    /\ ftOut.kind = "ok"
    /\ Len(ftOut.pokemon) = 2
    /\ ftOut.pokemon[1].id = "1"
    /\ ftOut.pokemon[2].id = "25"


(***************************************************************************)
(* Claims about trivia (checked under SpecTrivia).                         *)
(***************************************************************************)
TriviaReturned == tvPc \in {"server", "http"} /\ tvOut.kind = "ok"

\* the facts of the returned dictionary, whichever list holds them
TriviaFacts ==
    IF "facts" \in DOMAIN tvOut THEN tvOut.facts ELSE tvOut.fun_facts

ReportedAs(label) ==
    {f \in Range(TriviaFacts) : f.fact = label}

\* the descriptive texts the returned dictionary carries
ReportedTexts ==
    {f.text : f \in ReportedAs("Pokedex entry")}
    \cup (IF "description" \in DOMAIN tvOut THEN {tvOut.description} ELSE {})

\* the first metric, in the subject's order, that has the value v
FirstWith(v) ==
    tvSubject.stats[CHOOSE i \in 1..Len(tvSubject.stats) :
                      /\ tvSubject.stats[i].value = v
                      /\ \A j \in 1..(i - 1) : tvSubject.stats[j].value # v]

SubjectValues == {tvSubject.stats[i].value : i \in 1..Len(tvSubject.stats)}

HighestValue == CHOOSE v \in SubjectValues : \A w \in SubjectValues : w <= v

LowestValue == CHOOSE v \in SubjectValues : \A w \in SubjectValues : v <= w

EnglishEntries ==
    IF tvSpecies.found
    THEN {i \in 1..Len(tvSpecies.flavor_text_entries) :
            tvSpecies.flavor_text_entries[i].language = "en"}
    ELSE {}

\* text t is text u, line and page breaks aside
SameText(t, u) ==
    /\ Len(t) = Len(u)
    /\ \A i \in 1..Len(u) : u[i] \notin {"\n", "\f"} => t[i] = u[i]

\* the descriptive text is that of the first entry with language 'en',
\* and nothing is reported in its place when no entry has that language
TextAsStated ==
    /\ EnglishEntries = {} => ReportedTexts = {}
    /\ EnglishEntries # {} =>
           LET first == CHOOSE i \in EnglishEntries :
                            \A j \in EnglishEntries : i <= j
           IN /\ Cardinality(ReportedTexts) = 1
              /\ \A t \in ReportedTexts :
                     SameText(t, tvSpecies.flavor_text_entries[first]
                                   .flavor_text)

\* the highest-valued and the lowest-valued metric are reported by name and
\* value, the first in the subject's metric order among equal values
MetricsAsStated ==
    /\ ReportedAs("Highest stat") =
           {[fact |-> "Highest stat",
             stat |-> StatTitle(FirstWith(HighestValue).name),
             value |-> HighestValue]}
    /\ ReportedAs("Lowest stat") =
           {[fact |-> "Lowest stat",
             stat |-> StatTitle(FirstWith(LowestValue).name),
             value |-> LowestValue]}

\* C26 as stated: trivia reports the highest-valued and the lowest-valued
\* metric by name and value, the first in the subject's metric order among
\* equal values; the descriptive text is that of the first entry with
\* language 'en', and is omitted when no entry has it.
C26_Original ==
    TriviaReturned => MetricsAsStated /\ TextAsStated

\* C26 amended: the trivia of server.py reports the highest-valued and the
\* lowest-valued metric as stated, the trivia of http_server.py reports no
\* metric; in both the descriptive text is that of the first entry with
\* language 'en', and is omitted when no entry has it.
C26_Amended ==
    TriviaReturned =>
        /\ tvPc = "server" => MetricsAsStated
        /\ tvPc = "http" => /\ ReportedAs("Highest stat") = {}
                            /\ ReportedAs("Lowest stat") = {}
        /\ TextAsStated

\* C26 witness: server.py gave the trivia of a subject whose second and
\* third metric tie for highest, with a species whose second entry is the
\* first English one: the second metric and that entry's text are reported
C26_Witness ==
    /\ TriviaReturned
    /\ tvPc = "server"
    /\ Len(tvSubject.stats) = 3
    /\ tvSubject.stats[1].value = 1
    /\ tvSubject.stats[2].value = 2
    /\ tvSubject.stats[3].value = 2
    /\ ReportedAs("Highest stat") =
           {[fact |-> "Highest stat",
             stat |-> StatTitle(tvSubject.stats[2].name), value |-> 2]}
    /\ tvSpecies.found
    /\ Len(tvSpecies.flavor_text_entries) = 2
    /\ tvSpecies.flavor_text_entries[1].language = "ja"
    /\ tvSpecies.flavor_text_entries[2].language = "en"
    /\ Cardinality(ReportedTexts) = 1


(***************************************************************************)
(* Claims about tool calls by name (checked under SpecDispatch).           *)
(***************************************************************************)
Registered == dsCall.name \in DOMAIN required

\* the name is registered and every required parameter is given
WellFormedCall ==
    IF Registered
    THEN required[dsCall.name] \subseteq DOMAIN dsCall.arguments
    ELSE FALSE

\* the handler's fetch/compute step has run: a GET was made or the payload
\* is not the one of a failed execution
HandlerRan ==
    \/ dsFetches # <<>>
    \/ dsOut # [kind |-> "error", error |-> "Tool execution failed"]

\* C24: a tool call by name returns an error payload, and makes no upstream
\* GET, when the name is not registered or a required parameter is missing;
\* the handler's fetch/compute step runs only for a registered name with
\* every required parameter given; the call itself never raises.
C24_InvokeByName ==
    dsPc = "done" =>
        /\ dsOut.kind # "raised"
        /\ ~WellFormedCall => dsOut.kind = "error" /\ dsFetches = <<>>
        /\ HandlerRan => WellFormedCall

\* C24 witness: get_stat_rankings was called with stat_name but without
\* pokemon_list: an error payload came back and nothing was fetched
C24_Witness ==
    /\ dsPc = "done"
    /\ dsCall = [name |-> "get_stat_rankings",
                 arguments |-> [stat_name |-> "hp"]]
    /\ dsOut.kind = "error"
    /\ dsFetches = <<>>


(***************************************************************************)
(* Claims about sample rankings (checked under SpecSample).                *)
(***************************************************************************)
SampleReturned == smPc = "done" /\ smOut.kind = "ok"

RequestedLimit == Arg(smArgs, "limit", 10)

KnownStat == stat_key(smArgs.stat_name) \in DOMAIN sample_data

\* C27: the sample get_stat_rankings tool returns at most min(limit, 20)
\* entries for every integer limit (none for 0 and for negative limits);
\* the entries are a prefix of the fixed table of the requested stat and
\* are listed from highest to lowest value; an unknown stat yields an empty
\* list with the not-found note.
C27_SampleRankings ==
    SampleReturned =>
        LET out == smOut.sample_high_performers
        IN /\ Len(out) <= Max(0, Min(RequestedLimit, 20))
           /\ KnownStat =>
                  /\ Len(out) <= Len(sample_data[stat_key(smArgs.stat_name)])
                  /\ \A i \in 1..Len(out) :
                         out[i] = sample_data[stat_key(smArgs.stat_name)][i]
                  /\ ~smOut.not_found
           /\ \A i \in 1..(Len(out) - 1) : out[i].value >= out[i + 1].value
           /\ ~KnownStat => out = <<>> /\ smOut.not_found


(***************************************************************************)
(* Claims about the get-task poll of the test clients (checked under       *)
(* Spec).                                                                  *)
(***************************************************************************)

\* this step issues a get-task request
IssuesGet == req'.kind = "get" /\ req' # req

\* this step takes in a send-message reply that is not a Task
TakesNonTask ==
    /\ cliPc = "await_send"
    /\ rsp.kind \in {"error", "message"}
    /\ rsp' = NoRsp

\* C28: a get-task poll is issued only after a send-message call returned a
\* Task and it queries exactly the id of that task; after a send-message
\* reply that is an error or not a Task no get-task is issued for that
\* request: the client goes on to its next query or ends.
C28_PollOnlyReturnedTask ==
    [][/\ IssuesGet =>
             /\ cliTask # NoSnapshot
             /\ cliTask.id \in TaskIds
             /\ req'.id = cliTask.id
       /\ (cliPc' = "poll" /\ cliPc # "poll") =>
             /\ cliPc = "await_send"
             /\ rsp.kind = "task"
             /\ cliTask' = rsp.task
       /\ cliPc = "poll" => (cliTask' = cliTask \/ cliPc' # "poll")
       /\ TakesNonTask => cliPc' \in {"send", "done", "aborted"}]_vars

\* C28 witness: the query loop is waiting for the get-task it issued for
\* the task its second query's send-message returned
C28_Witness ==
    /\ cliProg = "loop"
    /\ cliQuery = 2
    /\ cliPc = "await_get"
    /\ req.kind = "get"
    /\ cliTask # NoSnapshot
    /\ req.id = cliTask.id


(***************************************************************************)
(* Claims about peer requests (checked under SpecPeer).                    *)
(***************************************************************************)
RequestOps ==
    {"request_pokemon_info", "request_pokemon_comparison",
     "request_pokemon_trivia"}

\* in every state: what an operation returned is a string, and a remote
\* task is under way only while the handle of its object is held
PeerStateRules ==
    \A c \in Callers :
        /\ prPc[c] = "returned" => prOut[c].kind = "string"
        /\ prPc[c] = "executing" => prHandle[AgentOf(prOp[c])]
        /\ prOut[c].kind # "raised"

\* in every step: a held handle stays held and no discovery is attempted
\* on it; without a handle an operation attempts discovery before anything
\* else; a request operation that ends without a handle returns the fixed
\* message, one whose remote call ended returns the result or the error
\* message
PeerStepRules ==
    /\ \A a \in Agents :
         /\ prHandle[a] => prHandle'[a] /\ prTried'[a] = prTried[a]
         /\ prFound'[a] = prFound[a] + 1 => ~prHandle[a] /\ prHandle'[a]
    /\ \A c \in Callers :
         /\ (prPc[c] # "executing" /\ prPc'[c] = "executing") =>
                \/ prHandle[AgentOf(prOp'[c])]
                \/ prTried'[AgentOf(prOp'[c])] > prTried[AgentOf(prOp'[c])]
         /\ (prCalls' = prCalls + 1 /\ prPc'[c] = "returned"
               /\ prOp'[c] \in RequestOps /\ prOut'[c] # prOut[c]) =>
                /\ ~prHandle'[AgentOf(prOp'[c])]
                /\ prTried'[AgentOf(prOp'[c])] = prTried[AgentOf(prOp'[c])] + 1
                /\ prOut'[c] = Said("not available", prOp'[c])
         /\ (prPc[c] = "executing" /\ prPc'[c] = "returned") =>
                prOut'[c].says \in {"result", "could not get"}

\* C29: the peer-request operations never raise and always return a string;
\* without a handle discovery is attempted first; a remote task is executed
\* only while a handle is held; a failed discovery gives the fixed 'not
\* available' message and a remote call that raises gives an error message;
\* a handle once obtained is never cleared, so no discovery follows the
\* first successful one.
C29_PeerRequests ==
    /\ [](PeerStateRules /\ \A a \in Agents : prFound[a] <= 1)
    /\ [][PeerStepRules]_vars

\* C29 witness: the pokemon agent's handle was obtained by its second
\* discovery, after which a third operation ran its remote task, which
\* raised, and returned the error message
C29_Witness ==
    /\ prTried["pokemon"] = 2
    /\ prFound["pokemon"] = 1
    /\ prHandle["pokemon"]
    /\ prCalls = 3
    /\ \E c \in Callers :
         /\ prPc[c] = "returned"
         /\ prOp[c] = "request_pokemon_trivia"
         /\ prOut[c] = Said("could not get", "request_pokemon_trivia")


(***************************************************************************)
(* Claims about team improvements (checked under SpecSuggest).             *)
(***************************************************************************)
SolidOnly ==
    <<"Team composition looks solid! Consider testing different movesets.">>

\* a weakness rule or a strategy rule fires on the analysis the result
\* carries
RuleFires ==
    LET analysis == sgOut.current_analysis
    IN \/ "Limited type coverage" \in Range(analysis.weaknesses)
       \/ "Below average stats" \in Range(analysis.weaknesses)
       \/ /\ sgStrategy = "offensive"
          /\ average_of(analysis.stat_analysis, "attack") < 1000
       \/ /\ sgStrategy = "defensive"
          /\ average_of(analysis.stat_analysis, "hp") < 900

\* C30: suggest_team_improvements returns the error payload of the team
\* analysis when the list is empty or none of its subjects resolved;
\* otherwise it returns suggestions whose recommendations list is not
\* empty, and is the single 'team composition looks solid' recommendation
\* exactly when no weakness rule and no strategy rule fires.
C30_Recommendations ==
    sgPc = "done" =>
        IF teamArgs = <<>>
        THEN sgOut = [kind |-> "error",
                      error |-> "No Pokemon provided for analysis"]
        ELSE IF TeamResolved = {}
        THEN sgOut = [kind |-> "error",
                      error |-> "Could not retrieve data for any of the provided Pokemon"]
        ELSE /\ sgOut.kind = "ok"
             /\ sgOut.recommendations # <<>>
             /\ ~RuleFires <=> sgOut.recommendations = SolidOnly

=============================================================================
